---- MODULE Spec2Model ----
(***************************************************************************)
(* Model of the code generator of pragmatic_script                         *)
(* (src/pgs/pgs/src/codegen/compiler.rs).                                  *)
(*                                                                         *)
(* The compiler is a recursive tree walker.  The model compiles a program  *)
(* that is chosen step by step: every action is one handler of the         *)
(* compiler (or the part of a handler between two recursive calls), and    *)
(* the declaration or statement it handles is drawn from a small set.      *)
(* The variable ctrl holds the handlers that are open, i.e. the position   *)
(* of the walk in the tree.                                                *)
(***************************************************************************)
EXTENDS Integers, Sequences, FiniteSets, TLC

VARIABLES
    phase,                  \* position in compile_root / get_program:
                            \* "declare", "compile", "done" (compile_root
                            \* returned Ok), "error" (it returned Err),
                            \* "program" (get_program returned Ok),
                            \* "no_program" (it returned Err), "panic" (the
                            \* thread panicked)
    err,                    \* the CompilerError returned, NoErr while none
    decls,                  \* the declaration list handed to compile_root
    decl_i,                 \* number of declarations the compile pass has done
    mod_context_stack,      \* Compiler.mod_context_stack, front first
    fn_context_stack,       \* Compiler.fn_context_stack, front first
    loop_ctx_stack,         \* Compiler.loop_ctx_stack, front first
    fn_uid_map,             \* Compiler.fn_uid_map
    foreign_function_uids,  \* Compiler.foreign_function_uids
    foreign_functions,      \* Compiler.foreign_functions, an Option: <<map>>
                            \* for Some(map), <<>> for None
    uid_generator,          \* Compiler.uid_generator
    builder,                \* Compiler.builder
    data,                   \* Compiler.data (length of the data segment)
    current_cont,           \* Compiler.current_cont
    ctrl,                   \* the open handlers of the compile pass
    program,                \* the Program returned by get_program
    nstmts,                 \* number of statements compiled so far
    resolving,              \* the name the innermost active call of
                            \* resolve_function has as its argument: <<name>>,
                            \* <<>> when no call is active
    lexer,                  \* the Lexer that Token::lexer(source) returns
    gsp,                    \* history: the VM's SP relative to function entry
    last                    \* history: what the last step compiled

vars == <<phase, err, decls, decl_i, mod_context_stack, fn_context_stack,
          loop_ctx_stack, fn_uid_map, foreign_function_uids,
          foreign_functions, uid_generator,
          builder, data, current_cont, ctrl, program, nstmts, resolving,
          lexer, gsp, last>>

(***************************************************************************)
(* Bounds of the model                                                     *)
(***************************************************************************)
\* statements of a program (an else-if branch is not counted)
MaxStmts == 3

\* nesting depth of if chains and while loops
MaxDepth == 2

\* else-if branches of an if chain
MaxElseIf == 1

MaxDecls == 2

\* characters of a source text
MaxSource == 4

(***************************************************************************)
(* Small helpers                                                           *)
(***************************************************************************)
RECURSIVE SumSeq(_)
SumSeq(s) == IF s = <<>> THEN 0 ELSE Head(s) + SumSeq(Tail(s))

Abs(n) == IF n < 0 THEN -n ELSE n

Range(s) == {s[i] : i \in 1..Len(s)}

\* m with key k bound to v (HashMap::insert)
MapPut(m, k, v) == [x \in DOMAIN m \cup {k} |-> IF x = k THEN v ELSE m[x]]

EmptyMap == [x \in {} |-> 0]

(***************************************************************************)
(* Types                                                                   *)
(***************************************************************************)
\* Compiler::get_size_of_type; -1 stands for the UnknownType error
get_size_of_type(t) ==
    CASE t = "String" -> 16
      [] t = "Void" -> 0
      [] t = "Int" -> 8
      [] t = "Float" -> 4
      [] t = "Bool" -> 4
      [] OTHER -> -1

(***************************************************************************)
(* Errors                                                                  *)
(***************************************************************************)
NoErr == [kind |-> "None", a |-> "", b |-> ""]

Error(k, a, b) == [kind |-> k, a |-> a, b |-> b]

(***************************************************************************)
(* Registers and instructions                                              *)
(***************************************************************************)
NumTempRegs == 16

R0 == 0

SP == 16

OpcodeSize == 1

\* widths in bytes of the operands each opcode is built with
OperandWidths(op) ==
    CASE op \in {"JMP", "CALL"} -> <<8>>
      [] op \in {"JMPF", "JMPT"} -> <<1, 8>>
      [] op \in {"SUBU_I", "ADDU_I"} -> <<1, 8, 1>>
      [] op = "LDI" -> <<8, 1>>
      [] op = "LDA" -> <<8, 1>>
      [] op = "LDF" -> <<4, 1>>
      [] op = "LDB" -> <<1, 1>>
      [] op \in {"MOVI", "MOVF", "MOVB", "MOVA", "NOT"} -> <<1, 1>>
      [] op \in {"MOVI_RA", "MOVF_RA", "MOVB_RA", "MOVA_RA"} -> <<1, 1, 2>>
      [] op \in {"MOVI_AR", "MOVF_AR", "MOVB_AR", "MOVA_AR"} -> <<1, 2, 1>>
      [] op = "MOVN_A" -> <<1, 2, 1, 2, 4>>
      [] op = "HALT" -> <<1>>
      [] op = "RET" -> <<>>
      [] OTHER -> <<1, 1, 1>>

InstrSize(ins) == OpcodeSize + SumSeq(OperandWidths(ins.op))

\* An instruction: opcode and operands.  gvar and gdist are history fields of
\* an instruction that accesses a variable: the variable's name and the
\* number of bytes between the start of its slot and SP when it is emitted.
Instr(op, args) == [op |-> op, args |-> args, gvar |-> "", gdist |-> 0]

VarInstr(op, args, v, d) == [op |-> op, args |-> args, gvar |-> v, gdist |-> d]

\* Instruction::new_inc_stack
new_inc_stack(k) == Instr("ADDU_I", <<SP, k, SP>>)

\* Instruction::new_dec_stack
new_dec_stack(k) == Instr("SUBU_I", <<SP, k, SP>>)

IsJump(ins) == ins.op \in {"JMP", "JMPF", "JMPT"}

\* index in args of the 8-byte target of a jump
JumpArg(ins) == IF ins.op = "JMP" THEN 1 ELSE 2

(***************************************************************************)
(* Builder                                                                 *)
(***************************************************************************)
NewBuilder ==
    [code |-> <<>>, offsets |-> <<>>, size |-> 0, labels |-> EmptyMap,
     tags |-> EmptyMap, current_tag |-> <<>>, jmp_instructions |-> <<>>]

\* Builder::get_current_offset
get_current_offset(b) == b.size

\* the byte offsets at which an instruction of the builder starts
InstrStarts(b) == Range(b.offsets)

\* Builder::get_instr: index of the instruction at a byte offset, 0 if none
get_instr(b, offset) ==
    IF \E i \in 1..Len(b.offsets) : b.offsets[i] = offset
    THEN CHOOSE i \in 1..Len(b.offsets) : b.offsets[i] = offset
    ELSE 0

\* Builder::tag
tag(b, t) == [b EXCEPT !.current_tag = <<t>>]

\* Builder::push_label
push_label(b, name) ==
    [b EXCEPT !.labels = MapPut(b.labels, name, get_current_offset(b))]

\* Builder::push_instr
push_instr(b, ins) ==
    LET off == get_current_offset(b)
        t == b.current_tag
        tags1 == IF t = <<>> THEN b.tags
                 ELSE MapPut(b.tags, t[1],
                             IF t[1] \in DOMAIN b.tags
                             THEN Append(b.tags[t[1]], off) ELSE <<off>>)
    IN [b EXCEPT !.code = Append(b.code, ins),
                 !.offsets = Append(b.offsets, off),
                 !.size = off + InstrSize(ins),
                 !.tags = tags1,
                 !.current_tag = <<>>,
                 !.jmp_instructions =
                     IF IsJump(ins) THEN Append(b.jmp_instructions, off)
                     ELSE b.jmp_instructions]

RECURSIVE push_all(_, _)
push_all(b, instrs) ==
    IF instrs = <<>> THEN b
    ELSE push_all(push_instr(b, Head(instrs)), Tail(instrs))

\* remove_operand_bytes(8) followed by append_operand(v) on the instruction
\* at a byte offset: its last operand, the 8-byte target, becomes v
set_target(b, offset, v) ==
    LET i == get_instr(b, offset)
    IN [b EXCEPT !.code[i].args[Len(b.code[i].args)] = v]

RECURSIVE set_targets(_, _, _)
set_targets(b, offsets, v) ==
    IF offsets = <<>> THEN b
    ELSE set_targets(set_target(b, Head(offsets), v), Tail(offsets), v)

(***************************************************************************)
(* UID generator                                                           *)
(***************************************************************************)
NewUIDGenerator == [next |-> 0, memo |-> EmptyMap]

\* UIDGenerator::get_function_uid: <<generator, uid>>
get_function_uid(g, name) ==
    IF name \in DOMAIN g.memo THEN <<g, g.memo[name]>>
    ELSE <<[next |-> g.next + 1, memo |-> MapPut(g.memo, name, g.next)], g.next>>

\* UIDGenerator::generate: <<generator, uid>>
generate(g) == <<[g EXCEPT !.next = g.next + 1], g.next>>

(***************************************************************************)
(* Expressions of the input tree: kind, name (variable or callee), literal *)
(* value (the length for a string literal) and operands.                   *)
(***************************************************************************)
Expr(k, n, v, args) == [k |-> k, n |-> n, v |-> v, args |-> args]

IntLiteral(v) == Expr("IntLiteral", "", v, <<>>)

BoolLiteral(v) == Expr("BoolLiteral", "", v, <<>>)

FloatLiteral(v) == Expr("FloatLiteral", "", v, <<>>)

\* a string literal of n characters (quotes not counted)
StringLiteral(n) == Expr("StringLiteral", "", n, <<>>)

Variable(n) == Expr("Variable", n, 0, <<>>)

Call(n, args) == Expr("Call", n, 0, args)

Binary(k, l, r) == Expr(k, "", 0, <<l, r>>)

Unary(k, e) == Expr(k, "", 0, <<e>>)

ArithKinds == {"Addition", "Subtraction", "Multiplication", "Division"}

CompareKinds == {"LessThan", "GreaterThan", "LessThanEquals",
                 "GreaterThanEquals", "Equals", "NotEquals"}

AssignKinds == {"Assign", "AddAssign", "SubAssign", "MulAssign", "DivAssign"}

(***************************************************************************)
(* Register allocator of a function context: reg is the cursor, the next   *)
(* temporary register to hand out.                                         *)
(***************************************************************************)
\* RegisterAllocator::get_last_temp_register
get_last_temp_register(ctx) == (ctx.reg + NumTempRegs - 1) % NumTempRegs

\* RegisterAllocator::get_temp_register: the context after the call; the
\* register handed out is the new context's last temporary register
get_temp_register(ctx) == [ctx EXCEPT !.reg = (ctx.reg + 1) % NumTempRegs]

\* RegisterAllocator::force_temp_register
force_temp_register(ctx, r) == [ctx EXCEPT !.reg = (r + 1) % NumTempRegs]

(***************************************************************************)
(* Function definitions and function contexts                              *)
(***************************************************************************)
\* FunctionDef: arguments is a sequence of [name, type]
FunctionDef(name, arguments, ret_type, uid) ==
    [name |-> name, arguments |-> arguments, ret_type |-> ret_type, uid |-> uid]

ArgSizes(arguments) ==
    [i \in 1..Len(arguments) |-> get_size_of_type(arguments[i].type)]

\* offset of argument i from SP at function entry: minus the sizes of the
\* arguments i..n
ArgOffset(arguments, i) ==
    -SumSeq(SubSeq(ArgSizes(arguments), i, Len(arguments)))

\* a variable of a function context: type, stack position, and (history) the
\* address of its slot relative to SP at function entry
VarLoc(t, pos, gaddr) == [type |-> t, pos |-> pos, gaddr |-> gaddr]

\* FunctionContext::new
NewFunctionContext(fn_def) ==
    LET named == {i \in 1..Len(fn_def.arguments) : TRUE}
        names == {fn_def.arguments[i].name : i \in named}
        idx(n) == CHOOSE i \in named : fn_def.arguments[i].name = n
    IN [weak |-> FALSE, is_loop |-> FALSE, stack_size |-> 0,
        vars |-> [n \in names |->
                    VarLoc(fn_def.arguments[idx(n)].type,
                           ArgOffset(fn_def.arguments, idx(n)),
                           SumSeq(SubSeq(ArgSizes(fn_def.arguments), 1, idx(n) - 1))
                             - SumSeq(ArgSizes(fn_def.arguments)))],
        ret_type |-> fn_def.ret_type, reg |-> 0]

\* FunctionContext::new_weak: a block of the same function; it starts with
\* no bytes of its own and sees the variables of the enclosing context
new_weak(ctx) ==
    [weak |-> TRUE, is_loop |-> FALSE, stack_size |-> 0,
     vars |-> [n \in DOMAIN ctx.vars |->
                 [ctx.vars[n] EXCEPT !.pos = @ - ctx.stack_size]],
     ret_type |-> ctx.ret_type, reg |-> ctx.reg]

\* FunctionContext::new_loop: the strong, loop-flagged context of a while
new_loop(ctx) ==
    [weak |-> FALSE, is_loop |-> TRUE, stack_size |-> 0,
     vars |-> [n \in DOMAIN ctx.vars |->
                 [ctx.vars[n] EXCEPT !.pos = @ - ctx.stack_size]],
     ret_type |-> ctx.ret_type, reg |-> ctx.reg]

\* Compiler::get_type_of_var: the type in the first context, from the front,
\* that has the variable; "" stands for UnknownVariable
get_type_of_var(stack, n) ==
    LET has == {i \in 1..Len(stack) : n \in DOMAIN stack[i].vars}
    IN IF has = {} THEN ""
       ELSE stack[CHOOSE i \in has : \A j \in has : i <= j].vars[n].type

\* variant of get_sp_offset_of_var that does not negate the offset
get_sp_offset_of_var_unsigned(ctx, n) ==
    ctx.stack_size - ctx.vars[n].pos

\* Compiler::get_sp_offset_of_var, on the current function context
get_sp_offset_of_var(ctx, n) ==
    LET offset == ctx.stack_size - ctx.vars[n].pos
    IN IF offset > 0 THEN -offset ELSE offset

(***************************************************************************)
(* Module contexts and name resolution                                     *)
(***************************************************************************)
\* ModuleContext::new
NewModuleContext(name) ==
    [name |-> name, functions |-> EmptyMap, imports |-> EmptyMap,
     modules |-> EmptyMap, containers |-> EmptyMap]

\* Compiler::get_module_path, as the sequence of module names from the root
get_module_path(mods) == [i \in 1..Len(mods) |-> mods[Len(mods) + 1 - i].name]

\* name.split("::") for the names the inputs use: a name without "::" is its
\* only fragment
Split(name) ==
    CASE name = "root::std::print" -> <<"root", "std", "print">>
      [] name = "root::m::run" -> <<"root", "m", "run">>
      [] name = "root::m::nope" -> <<"root", "m", "nope">>
      [] name = "m::run" -> <<"m", "run">>
      [] name = "o::m::run" -> <<"o", "m", "run">>
      [] name = "T::get" -> <<"T", "get">>
      [] name = "super::run" -> <<"super", "run">>
      [] OTHER -> <<name>>

\* the result of resolve_function: [err, def]
Resolved(fn_def) == [err |-> NoErr, def |-> fn_def]

Unresolved(e) == [err |-> e, def |-> FunctionDef("", <<>>, "Void", 0)]

\* Option::unwrap on None
UnwrapNone == Error("Panic", "called Option::unwrap() on a None value", "")

\* an Option of a module context
SomeModule(mod_ctx) == <<mod_ctx>>

NoModule == <<>>

\* the loop of resolve_function over the path fragments i .. Len - 1: every
\* iteration unwraps the module found so far and looks the fragment up in its
\* modules
RECURSIVE resolve_path(_, _, _)
resolve_path(mod_ctx_opt, path_fragments, i) ==
    IF i >= Len(path_fragments) THEN mod_ctx_opt
    ELSE IF mod_ctx_opt = NoModule THEN NoModule
    ELSE resolve_path(
            IF path_fragments[i] \in DOMAIN mod_ctx_opt[1].modules
            THEN SomeModule(mod_ctx_opt[1].modules[path_fragments[i]])
            ELSE NoModule,
            path_fragments, i + 1)

\* resolve_function of a qualified name after the loop: the module is
\* unwrapped and the last fragment looked up in its functions
resolve_last(mod_ctx_opt, name, last_path) ==
    IF mod_ctx_opt = NoModule THEN Unresolved(UnwrapNone)
    ELSE IF last_path \in DOMAIN mod_ctx_opt[1].functions
    THEN Resolved(mod_ctx_opt[1].functions[last_path])
    ELSE Unresolved(Error("UnknownFunction", name, ""))

\* resolve_function of a name with "::"
resolve_qualified(mods, name, path_fragments) ==
    IF path_fragments[1] = "root"
    THEN resolve_last(resolve_path(SomeModule(mods[Len(mods)]), path_fragments, 2),
                      name, path_fragments[Len(path_fragments)])
    ELSE IF path_fragments[1] = "super"
    THEN Unresolved(Error("Unimplemented", "Blub", ""))
    ELSE resolve_last(resolve_path(SomeModule(mods[1]), path_fragments, 1),
                      name, path_fragments[Len(path_fragments)])

\* one call of resolve_function on an unqualified name: the function found,
\* the error, or the path the call goes on with (next)
Recurse(import_path) ==
    [err |-> NoErr, def |-> FunctionDef("", <<>>, "Void", 0),
     next |-> <<import_path>>]

Returns(res) == [err |-> res.err, def |-> res.def, next |-> <<>>]

\* Compiler::resolve_function up to its call of itself
resolve_function_call(mods, name) ==
    IF Len(Split(name)) > 1
    THEN Returns(resolve_qualified(mods, name, Split(name)))
    ELSE IF name \in DOMAIN mods[1].functions
    THEN Returns(Resolved(mods[1].functions[name]))
    ELSE IF name \in DOMAIN mods[1].imports
    THEN Recurse(mods[1].imports[name])
    ELSE Returns(Unresolved(Error("UnknownFunction", name, "")))

\* variant of resolve_function that knows a function of the current module
\* only once its label has been pushed, as a compiler without a declare pass
\* would
resolve_function_compiled(mods, name) ==
    IF name \in DOMAIN mods[1].functions
       /\ get_module_path(mods) \o <<name>> \in DOMAIN builder.labels
    THEN Resolved(mods[1].functions[name])
    ELSE Unresolved(Error("UnknownFunction", name, ""))

\* variant of resolve_function that lets an import alias take precedence over
\* a function of the current module
resolve_function_import_first(mods, name) ==
    IF Len(Split(name)) > 1 THEN resolve_qualified(mods, name, Split(name))
    ELSE IF name \in DOMAIN mods[1].imports
    THEN resolve_qualified(mods, mods[1].imports[name],
                           Split(mods[1].imports[name]))
    ELSE IF name \in DOMAIN mods[1].functions
    THEN Resolved(mods[1].functions[name])
    ELSE Unresolved(Error("UnknownFunction", name, ""))

\* Compiler::resolve_function: [err, def]
RECURSIVE resolve_function(_, _)
resolve_function(mods, name) ==
    IF Len(Split(name)) > 1 THEN resolve_qualified(mods, name, Split(name))
    ELSE IF name \in DOMAIN mods[1].functions
    THEN Resolved(mods[1].functions[name])
    ELSE IF name \in DOMAIN mods[1].imports
    THEN resolve_function(mods, mods[1].imports[name])
    ELSE Unresolved(Error("UnknownFunction", name, ""))

(***************************************************************************)
(* Type checker                                                            *)
(***************************************************************************)
TypeOk(t) == [t |-> t, err |-> NoErr]

TypeErr(e) == [t |-> "", err |-> e]

\* Compiler::check_expr_type: [t, err]
RECURSIVE check_expr_type(_, _)
check_expr_type(stack, e) ==
    CASE e.k = "IntLiteral" -> TypeOk("Int")
      [] e.k = "FloatLiteral" -> TypeOk("Float")
      [] e.k = "BoolLiteral" -> TypeOk("Bool")
      [] e.k = "StringLiteral" -> TypeOk("String")
      [] e.k = "Variable" ->
            LET t == get_type_of_var(stack, e.n)
            IN IF t = "" THEN TypeErr(Error("UnknownVariable", e.n, ""))
               ELSE TypeOk(t)
      [] e.k \in ArithKinds \cup CompareKinds \cup {"Assign", "And", "Or"} ->
            LET l == check_expr_type(stack, e.args[1])
            IN IF l.err # NoErr THEN l
               ELSE LET r == check_expr_type(stack, e.args[2])
                    IN IF r.err # NoErr THEN r
                       ELSE IF l.t # r.t
                       THEN TypeErr(Error("TypeMismatch", l.t, r.t))
                       ELSE IF e.k \in ArithKinds \cup {"Assign"}
                       THEN TypeOk(l.t) ELSE TypeOk("Bool")
      [] e.k = "Not" ->
            LET o == check_expr_type(stack, e.args[1])
            IN IF o.err # NoErr THEN o
               ELSE IF o.t # "Bool"
               THEN TypeErr(Error("TypeMismatch", "Bool", o.t))
               ELSE TypeOk("Bool")
      [] OTHER -> TypeErr(Error("UnsupportedExpression", e.k, ""))

\* CheckerError::TypeMismatch, which has no fields
CheckerTypeMismatch == Error("CheckerError::TypeMismatch", "", "")

\* Checker::check_expr_type of the standalone checker: [t, err]; it has arms
\* for the literals, variables, arithmetic, comparisons and Not only
RECURSIVE checker_check_expr_type(_, _)
checker_check_expr_type(stack, e) ==
    CASE e.k = "IntLiteral" -> TypeOk("Int")
      [] e.k = "FloatLiteral" -> TypeOk("Float")
      [] e.k = "StringLiteral" -> TypeOk("String")
      [] e.k = "BoolLiteral" -> TypeOk("Bool")
      [] e.k = "Variable" ->
            IF get_type_of_var(stack, e.n) = "" THEN TypeErr(CheckerTypeMismatch)
            ELSE TypeOk(get_type_of_var(stack, e.n))
      [] e.k \in ArithKinds \cup CompareKinds ->
            LET l == checker_check_expr_type(stack, e.args[1])
            IN IF l.err # NoErr THEN l
               ELSE LET r == checker_check_expr_type(stack, e.args[2])
                    IN IF r.err # NoErr THEN r
                       ELSE IF l.t # r.t THEN TypeErr(CheckerTypeMismatch)
                       ELSE TypeOk(l.t)
      [] e.k = "Not" -> checker_check_expr_type(stack, e.args[1])

(***************************************************************************)
(* Expression compiler.  The state threaded through it is                  *)
(*   stack : fn_context_stack        data : length of the data segment     *)
(*   out   : instructions pushed     err  : the error returned, if any     *)
(*   gsp   : (history) SP relative to function entry                       *)
(***************************************************************************)
CompState(stack, d, g) ==
    [stack |-> stack, data |-> d, out |-> <<>>, err |-> NoErr, gsp |-> g]

\* effect on SP of executing an instruction
SPEffect(ins) ==
    IF ins.op = "ADDU_I" /\ ins.args[1] = SP /\ ins.args[3] = SP THEN ins.args[2]
    ELSE IF ins.op = "SUBU_I" /\ ins.args[1] = SP /\ ins.args[3] = SP
    THEN -ins.args[2]
    ELSE 0

\* self.builder.push_instr(ins)
Emit(st, ins) ==
    [st EXCEPT !.out = Append(@, ins), !.gsp = @ + SPEffect(ins)]

Fail(st, e) == [st EXCEPT !.err = e]

\* Compiler::inc_stack
inc_stack(st, size) == [st EXCEPT !.stack[1].stack_size = @ + size]

\* Compiler::dec_stack
dec_stack(st, size) == [st EXCEPT !.stack[1].stack_size = @ - size]

\* get_temp_register on the current function context
NextReg(st) == [st EXCEPT !.stack[1] = get_temp_register(@)]

LastReg(st) == get_last_temp_register(st.stack[1])

\* Data::get_string_slice: the literal's bytes are appended to the data
get_string_slice(d, len) == [size |-> len, addr |-> d, data |-> d + len]

ArithOp(k, t) ==
    LET base == CASE k = "Addition" -> "ADD"
                  [] k = "Subtraction" -> "SUB"
                  [] k = "Multiplication" -> "MUL"
                  [] k = "Division" -> "DIV"
                  [] k = "LessThan" -> "LT"
                  [] k = "GreaterThan" -> "GT"
                  [] k = "LessThanEquals" -> "LTEQ"
                  [] k = "GreaterThanEquals" -> "GTEQ"
                  [] k = "Equals" -> "EQ"
                  [] k = "NotEquals" -> "NEQ"
    IN <<base, IF t = "Int" THEN "I" ELSE "F">>

\* the opcode named by base and type suffix
Opcode(p) ==
    CASE p = <<"ADD", "I">> -> "ADDI" [] p = <<"ADD", "F">> -> "ADDF"
      [] p = <<"SUB", "I">> -> "SUBI" [] p = <<"SUB", "F">> -> "SUBF"
      [] p = <<"MUL", "I">> -> "MULI" [] p = <<"MUL", "F">> -> "MULF"
      [] p = <<"DIV", "I">> -> "DIVI" [] p = <<"DIV", "F">> -> "DIVF"
      [] p = <<"LT", "I">> -> "LTI" [] p = <<"LT", "F">> -> "LTF"
      [] p = <<"GT", "I">> -> "GTI" [] p = <<"GT", "F">> -> "GTF"
      [] p = <<"LTEQ", "I">> -> "LTEQI" [] p = <<"LTEQ", "F">> -> "LTEQF"
      [] p = <<"GTEQ", "I">> -> "GTEQI" [] p = <<"GTEQ", "F">> -> "GTEQF"
      [] p = <<"EQ", "I">> -> "EQI" [] p = <<"EQ", "F">> -> "EQF"
      [] p = <<"NEQ", "I">> -> "NEQI" [] p = <<"NEQ", "F">> -> "NEQF"

\* the load of compile_var_expr into the register just handed out
compile_var_load(st1, op, var_offset, n, dist) ==
    Emit(st1, VarInstr(op, <<SP, var_offset, LastReg(st1)>>, n, dist))

\* compile_var_expr for a variable of the current context, by its type
compile_var_typed(st, e, var_type, var_offset, dist) ==
    CASE var_type = "Int" ->
            compile_var_load(NextReg(st), "MOVI_AR", var_offset, e.n, dist)
      [] var_type = "Float" ->
            compile_var_load(NextReg(st), "MOVF_AR", var_offset, e.n, dist)
      [] var_type = "Bool" ->
            compile_var_load(NextReg(st), "MOVB_AR", var_offset, e.n, dist)
      [] OTHER -> Fail(st, Error("UnknownType", var_type, ""))

\* Compiler::compile_var_expr
compile_var_expr(st, e) ==
    IF get_type_of_var(st.stack, e.n) = ""
    THEN Fail(st, Error("UnknownVariable", e.n, ""))
    ELSE IF e.n \notin DOMAIN st.stack[1].vars
    THEN Fail(st, Error("UnknownVariable", e.n, ""))
    ELSE compile_var_typed(st, e, get_type_of_var(st.stack, e.n),
                           get_sp_offset_of_var(st.stack[1], e.n),
                           st.gsp - st.stack[1].vars[e.n].gaddr)

RECURSIVE compile_expr(_, _)
RECURSIVE compile_call_args(_, _, _, _, _)

\* an argument on the stack that is larger than a register is moved down over
\* what its evaluation left below it
compile_call_arg_move(st1, size, stack_diff) ==
    IF size > 8 /\ stack_diff > 0
    THEN dec_stack(
           Emit(Emit(st1,
               Instr("MOVN_A", <<SP, -size, SP, -stack_diff, size>>)),
               new_dec_stack(stack_diff)),
           stack_diff)
    ELSE st1

\* the slot of an argument: stack grow and, for a register value, the move
\* of the register last_reg into the slot
compile_call_arg_slot(st3, t, size, last_reg) ==
    IF t \in {"Int", "Float", "Bool"}
    THEN Emit(st3, Instr("MOVI_RA", <<last_reg, SP, -size>>))
    ELSE IF t = "String" THEN st3
    ELSE Fail(st3, Error("UnknownType", t, ""))

\* one iteration of the argument loop after the argument has been moved
compile_call_arg_push(st2, t, size) ==
    compile_call_arg_slot(inc_stack(Emit(st2, new_inc_stack(size)), size),
                          t, size, LastReg(st2))

\* one iteration of the argument loop after compile_expr of the argument
compile_call_arg_done(st1, t, stack_size) ==
    IF st1.err # NoErr THEN st1
    ELSE compile_call_arg_push(
            compile_call_arg_move(st1, get_size_of_type(t),
                                  st1.stack[1].stack_size - stack_size),
            t, get_size_of_type(t))

\* variant of compile_call_arg that does not compare the argument's type
\* with the parameter's
compile_call_arg_untyped(st, fn_arg_type, arg, ty, stack_size) ==
    IF ty.err # NoErr THEN Fail(st, ty.err)
    ELSE compile_call_arg_done(compile_expr(st, arg), ty.t, stack_size)

\* one iteration of the argument loop, ty is the argument's checked type
compile_call_arg(st, fn_arg_type, arg, ty, stack_size) ==
    IF ty.err # NoErr THEN Fail(st, ty.err)
    ELSE IF fn_arg_type # ty.t
    THEN Fail(st, Error("TypeMismatch", fn_arg_type, ty.t))
    ELSE compile_call_arg_done(compile_expr(st, arg), ty.t, stack_size)

\* the rest of the argument loop after iteration i left the state st4: the
\* local stack_size is read again at the end of every iteration
compile_call_args_next(st4, fn_def, args, i) ==
    compile_call_args(st4, fn_def, args, i + 1, st4.stack[1].stack_size)

\* the argument loop of Compiler::compile_call_expr, from argument i on;
\* stack_size is the local of that name
compile_call_args(st, fn_def, args, i, stack_size) ==
    IF st.err # NoErr \/ i > Len(fn_def.arguments) THEN st
    ELSE compile_call_args_next(
            compile_call_arg(st, fn_def.arguments[i].type, args[i],
                             check_expr_type(st.stack, args[i]), stack_size),
            fn_def, args, i)

\* the stack shrink after CALL: the local pop_size of compile_call_expr
CallPopSize(stack_diff, fn_ret_size) == stack_diff - fn_ret_size

\* push of CALL; the call leaves the return value, fn_ret_size bytes, on the
\* stack
compile_call_instr(st1, uid, fn_ret_size) ==
    inc_stack([Emit(st1, Instr("CALL", <<uid>>)) EXCEPT !.gsp = @ + fn_ret_size],
              fn_ret_size)

\* the move of the return value and the stack shrink
compile_call_pop(st2, stack_diff, pop_size, fn_ret_size) ==
    Emit(Emit(dec_stack(st2, pop_size),
        Instr("MOVN_A", <<SP, -fn_ret_size, SP, -stack_diff, fn_ret_size>>)),
        new_dec_stack(pop_size))

\* compile_call_expr after CALL; stack_size is the local of that name
compile_call_return(st2, stack_size, fn_ret_size) ==
    compile_call_pop(st2, st2.stack[1].stack_size - stack_size,
                     CallPopSize(st2.stack[1].stack_size - stack_size,
                                 fn_ret_size),
                     fn_ret_size)

\* compile_call_expr after the argument loop: the local stack_size holds the
\* stack size read at the end of the last iteration
compile_call_after_args(st1, fn_def, fn_ret_size) ==
    IF st1.err # NoErr THEN st1
    ELSE compile_call_return(compile_call_instr(st1, fn_def.uid, fn_ret_size),
                             st1.stack[1].stack_size, fn_ret_size)

\* compile_call_expr after resolve_function returned res
compile_call_resolved(st, e, res, fn_ret_size) ==
    IF res.err # NoErr THEN Fail(st, res.err)
    ELSE IF fn_ret_size < 0
    THEN Fail(st, Error("UnknownType", res.def.ret_type, ""))
    ELSE IF Len(e.args) # Len(res.def.arguments)
    THEN Fail(st, Error("UnknownFunction", e.n, ""))
    ELSE compile_call_after_args(
            compile_call_args(st, res.def, e.args, 1, st.stack[1].stack_size),
            res.def, fn_ret_size)

\* Compiler::compile_call_expr
compile_call_expr(st, e) ==
    compile_call_resolved(
        st, e, resolve_function(mod_context_stack, e.n),
        get_size_of_type(resolve_function(mod_context_stack, e.n).def.ret_type))

\* a literal is loaded into the register just handed out
compile_literal(st1, op, v) == Emit(st1, Instr(op, <<v, LastReg(st1)>>))

\* the instructions of a string literal: size_reg and addr_reg are the two
\* registers handed out
compile_string_instrs(st3, sl, size_reg, addr_reg) ==
    Emit(Emit(Emit(Emit(Emit(st3,
        new_inc_stack(16)),
        Instr("LDA", <<sl.size, size_reg>>)),
        Instr("LDA", <<sl.addr, addr_reg>>)),
        Instr("MOVA_RA", <<size_reg, SP, -16>>)),
        Instr("MOVA_RA", <<addr_reg, SP, -8>>))

\* a string literal after the first register has been handed out
compile_string_regs(st2, sl) ==
    compile_string_instrs(NextReg(st2), sl, LastReg(st2), LastReg(NextReg(st2)))

\* the StringLiteral arm of compile_expr
compile_string_literal(st, sl) ==
    compile_string_regs(NextReg(inc_stack([st EXCEPT !.data = sl.data], 16)), sl)

\* the Call arm of compile_expr after compile_call_expr
compile_call_force(st1) ==
    IF st1.err # NoErr THEN st1
    ELSE [st1 EXCEPT !.stack[1] = force_temp_register(@, R0)]

\* the instruction of a binary operation on the registers of its operands
compile_binary_instr(st3, op, lhs_reg, rhs_reg) ==
    Emit(st3, Instr(op, <<lhs_reg, rhs_reg, LastReg(st3)>>))

\* an arithmetic or comparison arm of compile_expr after both operands
compile_arith_op(st2, e, t, lhs_reg) ==
    IF st2.err # NoErr THEN st2
    ELSE IF t \in {"Int", "Float"}
    THEN compile_binary_instr(NextReg(st2), Opcode(ArithOp(e.k, t)), lhs_reg,
                              LastReg(st2))
    ELSE Fail(st2, Error("UnsupportedExpression", e.args[1].k, ""))

\* an arithmetic or comparison arm of compile_expr after the left operand
compile_arith_rhs(st1, e, t) ==
    IF st1.err # NoErr THEN st1
    ELSE compile_arith_op(compile_expr(st1, e.args[2]), e, t, LastReg(st1))

\* an arithmetic or comparison arm of compile_expr; ty is the type of the
\* left operand
compile_arith(st, e, ty) ==
    IF ty.err # NoErr THEN Fail(st, ty.err)
    ELSE compile_arith_rhs(compile_expr(st, e.args[1]), e, ty.t)

\* the Not arm of compile_expr after the operand
compile_not_op(st1) ==
    IF st1.err # NoErr THEN st1
    ELSE Emit(NextReg(st1),
              Instr("NOT", <<LastReg(st1), LastReg(NextReg(st1))>>))

\* the And and Or arms of compile_expr after both operands
compile_logic_op(st2, op, lhs_reg) ==
    IF st2.err # NoErr THEN st2
    ELSE compile_binary_instr(NextReg(st2), op, lhs_reg, LastReg(st2))

\* the And and Or arms of compile_expr after the left operand
compile_logic_rhs(st1, e) ==
    IF st1.err # NoErr THEN st1
    ELSE compile_logic_op(compile_expr(st1, e.args[2]),
                          IF e.k = "And" THEN "AND" ELSE "OR", LastReg(st1))

\* Compiler::compile_expr
compile_expr(st, e) ==
    IF st.err # NoErr THEN st
    ELSE
    CASE e.k = "IntLiteral" -> compile_literal(NextReg(st), "LDI", e.v)
      [] e.k = "FloatLiteral" -> compile_literal(NextReg(st), "LDF", e.v)
      [] e.k = "BoolLiteral" -> compile_literal(NextReg(st), "LDB", e.v)
      [] e.k = "StringLiteral" ->
            compile_string_literal(st, get_string_slice(st.data, e.v))
      [] e.k = "Variable" -> compile_var_expr(st, e)
      [] e.k = "Call" -> compile_call_force(compile_call_expr(st, e))
      [] e.k \in ArithKinds \cup CompareKinds ->
            compile_arith(st, e, check_expr_type(st.stack, e.args[1]))
      [] e.k = "Not" -> compile_not_op(compile_expr(st, e.args[1]))
      [] e.k \in {"And", "Or"} -> compile_logic_rhs(compile_expr(st, e.args[1]), e)
      [] OTHER -> Fail(st, Error("UnsupportedExpression", e.k, ""))

(***************************************************************************)
(* Statement handlers, on the part of the compiler they change:            *)
(*   stack : fn_context_stack   b : builder   data   gsp   err             *)
(***************************************************************************)
RunState(stack, b, d, g) ==
    [stack |-> stack, b |-> b, data |-> d, gsp |-> g, err |-> NoErr]

\* the compiler after compile_expr has ended in the state st
AfterExpr(cs, st) ==
    [stack |-> st.stack, b |-> push_all(cs.b, st.out), data |-> st.data,
     gsp |-> st.gsp, err |-> st.err]

\* self.compile_expr(e)
RunExpr(cs, e) == AfterExpr(cs, compile_expr(CompState(cs.stack, cs.data, cs.gsp), e))

\* push_instr of an instruction that the straight-line path executes
Push(cs, ins) ==
    [cs EXCEPT !.b = push_instr(@, ins), !.gsp = @ + SPEffect(ins)]

\* push_instr of an instruction followed by a jump or a return: the
\* straight-line path after it keeps its SP
PushExit(cs, ins) == [cs EXCEPT !.b = push_instr(@, ins)]

CsFail(cs, e) == [cs EXCEPT !.err = e]

CsIncStack(cs, size) == [cs EXCEPT !.stack[1].stack_size = @ + size]

CsNextReg(cs) == [cs EXCEPT !.stack[1] = get_temp_register(@)]

CsLastReg(cs) == get_last_temp_register(cs.stack[1])

\* register to memory move for a type that fits a register, "" if none
MovRA(t) ==
    CASE t = "Int" -> "MOVI_RA"
      [] t = "Float" -> "MOVF_RA"
      [] t = "Bool" -> "MOVB_RA"
      [] OTHER -> ""

\* FunctionContext::set_stack_var on the current context
set_stack_var(cs, name, t, pos, gaddr) ==
    [cs EXCEPT !.stack[1].vars = MapPut(@, name, VarLoc(t, pos, gaddr))]

\* compile_var_decl_stmt: the variable is entered into the context
var_decl_set(cs3, name, var_type, var_size) ==
    set_stack_var(cs3, name, var_type, cs3.stack[1].stack_size - var_size,
                  cs3.gsp - var_size)

\* compile_var_decl_stmt: the slot of a value that fits a register
var_decl_slot(cs2, var_type, var_size, last_reg) ==
    Push(Push(cs2, new_inc_stack(var_size)),
         Instr(MovRA(var_type), <<last_reg, SP, -var_size>>))

\* compile_var_decl_stmt after compile_expr of the initializer
var_decl_store(cs1, name, var_type, var_size) ==
    IF cs1.err # NoErr THEN cs1
    ELSE IF var_size > 8 THEN var_decl_set(cs1, name, var_type, var_size)
    ELSE IF MovRA(var_type) = ""
    THEN CsFail(CsIncStack(cs1, var_size), Error("UnknownType", var_type, ""))
    ELSE var_decl_set(var_decl_slot(CsIncStack(cs1, var_size), var_type,
                                    var_size, CsLastReg(cs1)),
                      name, var_type, var_size)

\* compile_var_decl_stmt after the type of the variable is known
var_decl_typed(cs, name, var_type, var_size, e) ==
    IF var_size < 0 THEN CsFail(cs, Error("UnknownType", var_type, ""))
    ELSE var_decl_store(RunExpr(cs, e), name, var_type, var_size)

\* compile_var_decl_stmt after check_expr_type of the initializer
var_decl_checked(cs, name, decl_type, e, ty) ==
    IF ty.err # NoErr THEN CsFail(cs, ty.err)
    ELSE var_decl_typed(cs, name,
                        IF decl_type = "Auto" THEN ty.t ELSE decl_type,
                        get_size_of_type(IF decl_type = "Auto" THEN ty.t
                                         ELSE decl_type),
                        e)

\* Compiler::compile_var_decl_stmt
compile_var_decl_stmt(cs, name, decl_type, e) ==
    var_decl_checked(cs, name, decl_type, e, check_expr_type(cs.stack, e))

\* variant of StackLoopPopSize that does not stop at the first loop context
StackLoopPopSizeAll(stack) ==
    SumSeq([i \in 1..Len(stack) |-> stack[i].stack_size])

\* Compiler::compile_stack_loop: the bytes popped by a break or a continue
StackLoopPopSize(stack) ==
    LET loops == {i \in 1..Len(stack) : stack[i].is_loop}
        stop == IF loops = {} THEN Len(stack)
                ELSE CHOOSE i \in loops : \A j \in loops : i <= j
    IN SumSeq([i \in 1..stop |-> stack[i].stack_size])

compile_stack_loop(cs) == PushExit(cs, new_dec_stack(StackLoopPopSize(cs.stack)))

\* Compiler::compile_stack_cleanup_block
compile_stack_cleanup_block(cs, fn_ctx) ==
    Push(cs, Instr("SUBU_I", <<SP, fn_ctx.stack_size, SP>>))

\* index of the first non-weak context from the front, 0 if none
ParentIndex(stack) ==
    LET strong == {i \in 1..Len(stack) : ~stack[i].weak}
    IN IF strong = {} THEN 0 ELSE CHOOSE i \in strong : \A j \in strong : i <= j

\* the contexts compile_stack_cleanup_return sums: from the front up to and
\* including the first non-weak one
ReturnCleanupSize(stack) ==
    SumSeq([i \in 1..ParentIndex(stack) |-> stack[i].stack_size])

\* compile_stack_cleanup_return for a parent function of type ret_type
cleanup_return_typed(cs, stack_size, ret_type, ret_size) ==
    IF ret_size < 0 THEN CsFail(cs, Error("UnknownType", ret_type, ""))
    ELSE IF ret_type \in {"Bool", "Int", "Float", "Void"}
    THEN PushExit(cs, Instr("SUBU_I", <<SP, stack_size, SP>>))
    ELSE PushExit(PushExit(cs,
             Instr("MOVN_A", <<SP, -ret_size, SP, -stack_size, ret_size>>)),
             Instr("SUBU_I", <<SP, stack_size - ret_size, SP>>))

\* Compiler::compile_stack_cleanup_return
compile_stack_cleanup_return(cs) ==
    IF ParentIndex(cs.stack) = 0 THEN CsFail(cs, Error("Unknown", "", ""))
    ELSE cleanup_return_typed(
            cs, ReturnCleanupSize(cs.stack),
            cs.stack[ParentIndex(cs.stack)].ret_type,
            get_size_of_type(cs.stack[ParentIndex(cs.stack)].ret_type))

\* register to register move of a primitive return value, "" if none
MovRet(t) ==
    CASE t = "Int" -> "MOVI"
      [] t = "Float" -> "MOVF"
      [] t = "Bool" -> "MOVB"
      [] OTHER -> ""

NoExpr == Expr("None", "", 0, <<>>)

\* compile_return_stmt after compile_stack_cleanup_return
return_ret(cs3) ==
    IF cs3.err # NoErr THEN cs3 ELSE PushExit(cs3, Instr("RET", <<>>))

\* compile_return_stmt: the move of a primitive return value into R0
return_move(cs1, fn_ret_type) ==
    IF MovRet(fn_ret_type) # ""
    THEN PushExit(cs1, Instr(MovRet(fn_ret_type), <<CsLastReg(cs1), R0>>))
    ELSE cs1

\* compile_return_stmt after compile_expr of the return expression
return_value(cs1, fn_ret_type) ==
    IF cs1.err # NoErr THEN cs1
    ELSE return_ret(compile_stack_cleanup_return(return_move(cs1, fn_ret_type)))

\* compile_return_stmt after the type check; ty is the type of the return
\* expression, Void if there is none
return_checked(cs, e, ty, fn_ret_type) ==
    IF ty.err # NoErr THEN CsFail(cs, ty.err)
    ELSE IF fn_ret_type # ty.t
    THEN CsFail(cs, Error("TypeMismatch", fn_ret_type, ty.t))
    ELSE IF e = NoExpr THEN return_ret(compile_stack_cleanup_return(cs))
    ELSE return_value(RunExpr(cs, e), fn_ret_type)

\* compile_return_stmt without the type check of the return expression
compile_return_stmt_unchecked(cs, e) ==
    IF ParentIndex(cs.stack) = 0 THEN CsFail(cs, Error("Unknown", "", ""))
    ELSE IF e = NoExpr THEN return_ret(compile_stack_cleanup_return(cs))
    ELSE return_value(RunExpr(cs, e), cs.stack[ParentIndex(cs.stack)].ret_type)

\* Compiler::compile_return_stmt; e is NoExpr for Return(None)
compile_return_stmt(cs, e) ==
    IF e # NoExpr /\ check_expr_type(cs.stack, e).err # NoErr
    THEN CsFail(cs, check_expr_type(cs.stack, e).err)
    ELSE IF ParentIndex(cs.stack) = 0 THEN CsFail(cs, Error("Unknown", "", ""))
    ELSE return_checked(cs, e,
                        IF e = NoExpr THEN TypeOk("Void")
                        ELSE check_expr_type(cs.stack, e),
                        cs.stack[ParentIndex(cs.stack)].ret_type)

\* the right-hand side compile_var_assign_stmt_expr compiles for each
\* assignment kind
AssignRhs(k, lhs, rhs) ==
    CASE k = "Assign" -> rhs
      [] k = "AddAssign" -> Binary("Addition", lhs, rhs)
      [] k = "SubAssign" -> Binary("Addition", lhs, rhs)
      [] k = "DivAssign" -> Binary("Addition", lhs, rhs)
      [] k = "MulAssign" -> Binary("Addition", lhs, rhs)

\* the byte count of the pointer the assignment saves on the stack
AssignPtrInc == 8

\* variant of AssignReloadOffset that reads the top 8 bytes of the stack of
\* the context
AssignReloadOffsetTop(curr_stack_size, lhs_ptr_pos) ==
    -(curr_stack_size - lhs_ptr_pos) - AssignPtrInc

\* SP offset from which the assignment reloads the saved pointer
AssignReloadOffset(curr_stack_size, lhs_ptr_pos) ==
    -(curr_stack_size - lhs_ptr_pos)

\* the address computation of compile_lhs_assign_expr into the register just
\* handed out
lhs_assign_instr(cs1, n, stack_offset, dist) ==
    Push(cs1, VarInstr("SUBU_I", <<SP, stack_offset, CsLastReg(cs1)>>, n, dist))

\* Compiler::compile_lhs_assign_expr
compile_lhs_assign_expr(cs, e) ==
    IF e.k # "Variable" THEN CsFail(cs, Error("UnsupportedExpression", e.k, ""))
    ELSE IF e.n \notin DOMAIN cs.stack[1].vars
    THEN CsFail(cs, Error("UnknownVariable", e.n, ""))
    ELSE lhs_assign_instr(CsNextReg(cs), e.n,
                          Abs(get_sp_offset_of_var(cs.stack[1], e.n)),
                          cs.gsp - cs.stack[1].vars[e.n].gaddr)

\* compile_var_assign_stmt_expr: the store of rhs_reg through lhs_reg
assign_store(cs6, t, size, rhs_reg, lhs_reg) ==
    IF MovRA(t) # "" THEN Push(cs6, Instr(MovRA(t), <<rhs_reg, lhs_reg, 0>>))
    ELSE IF size < 0 THEN CsFail(cs6, Error("UnknownType", t, ""))
    ELSE Push(cs6, Instr("MOVN_A", <<SP, -size, lhs_reg, 0, size>>))

\* compile_var_assign_stmt_expr: the reload of the saved pointer into the
\* register just handed out
assign_reload(cs5, t, rhs_reg, stack_offset) ==
    assign_store(Push(cs5, Instr("MOVA_AR", <<SP, stack_offset, CsLastReg(cs5)>>)),
                 t, get_size_of_type(t), rhs_reg, CsLastReg(cs5))

\* compile_var_assign_stmt_expr after compile_expr of the right-hand side
assign_value(cs4, t, lhs_ptr_pos) ==
    IF cs4.err # NoErr THEN cs4
    ELSE assign_reload(CsNextReg(cs4), t, CsLastReg(cs4),
                       AssignReloadOffset(cs4.stack[1].stack_size, lhs_ptr_pos))

\* compile_var_assign_stmt_expr after the pointer save; ty is the type of the
\* right-hand side
assign_checked(cs3, rhs_expr, lhs_expr_type, ty, lhs_ptr_pos) ==
    IF ty.err # NoErr THEN CsFail(cs3, ty.err)
    ELSE IF lhs_expr_type # ty.t
    THEN CsFail(cs3, Error("TypeMismatch", lhs_expr_type, ty.t))
    ELSE assign_value(RunExpr(cs3, rhs_expr), ty.t, lhs_ptr_pos)

\* compile_var_assign_stmt_expr: the pointer in lhs_reg is saved on the stack
assign_save(cs1, lhs_reg) ==
    CsIncStack(Push(Push(cs1, new_inc_stack(AssignPtrInc)),
                    Instr("MOVA_RA", <<lhs_reg, SP, -8>>)),
               AssignPtrInc)

\* compile_var_assign_stmt_expr after the pointer save
assign_saved(cs3, lhs_expr, rhs_expr, lhs_ptr_pos) ==
    assign_checked(cs3, rhs_expr, get_type_of_var(cs3.stack, lhs_expr.n),
                   check_expr_type(cs3.stack, rhs_expr), lhs_ptr_pos)

\* compile_var_assign_stmt_expr after compile_lhs_assign_expr
assign_lhs(cs1, lhs_expr, rhs_expr) ==
    IF cs1.err # NoErr THEN cs1
    ELSE assign_saved(assign_save(cs1, CsLastReg(cs1)), lhs_expr, rhs_expr,
                      cs1.stack[1].stack_size)

\* Compiler::compile_var_assign_stmt_expr
compile_var_assign_stmt_expr(cs, e) ==
    IF e.k \notin AssignKinds THEN CsFail(cs, Error("Unknown", "", ""))
    ELSE assign_lhs(compile_lhs_assign_expr(cs, e.args[1]), e.args[1],
                    AssignRhs(e.k, e.args[1], e.args[2]))

(***************************************************************************)
(* Declarations of the input tree and the declare pass                     *)
(***************************************************************************)
Arg(n, t) == [name |-> n, type |-> t]

\* Declaration::Function
FunctionDecl(name, args, ret) ==
    [kind |-> "Function", name |-> name, for |-> "", args |-> args,
     ret |-> ret, inner |-> <<>>]

\* Declaration::Impl(impl_type, impl_for, decl_list)
ImplDecl(impl_type, impl_for, decl_list) ==
    [kind |-> "Impl", name |-> impl_type, for |-> impl_for, args |-> <<>>,
     ret |-> "Void", inner |-> decl_list]

\* Declaration::Module(mod_name, decl_list)
ModuleDecl(mod_name, decl_list) ==
    [kind |-> "Module", name |-> mod_name, for |-> "", args |-> <<>>,
     ret |-> "Void", inner |-> decl_list]

\* Declaration::Import(import_path, import_as): the alias is kept in name,
\* the path in for
ImportDecl(import_path, import_as) ==
    [kind |-> "Import", name |-> import_as, for |-> import_path,
     args |-> <<>>, ret |-> "Void", inner |-> <<>>]

\* the part of the compiler the declare pass changes
DeclState ==
    [mods |-> mod_context_stack, fn_uid_map |-> fn_uid_map,
     uid |-> uid_generator, foreign |-> foreign_function_uids,
     foreign_functions |-> foreign_functions,
     cont |-> current_cont, err |-> NoErr]

\* ModuleContext::add_function on the front module context
add_function(ds, fn_def) ==
    IF fn_def.name \in DOMAIN ds.mods[1].functions
    THEN [ds EXCEPT !.err = Error("DuplicateFunction", fn_def.name, "")]
    ELSE [ds EXCEPT !.mods[1].functions = MapPut(@, fn_def.name, fn_def)]

\* ContainerDef::add_member_function on a container of the front module
add_member_function(ds, cont_name, fn_def) ==
    IF fn_def.name \in DOMAIN ds.mods[1].containers[cont_name].functions
    THEN [ds EXCEPT !.err = Error("DuplicateMember", fn_def.name, "")]
    ELSE [ds EXCEPT !.mods[1].containers[cont_name].functions =
                        MapPut(@, fn_def.name, fn_def)]

\* ModuleContext::add_module on the front module context
add_module(ds, mod_ctx) ==
    IF mod_ctx.name \in DOMAIN ds.mods[1].modules
    THEN [ds EXCEPT !.err = Error("DuplicateModule", mod_ctx.name, "")]
    ELSE [ds EXCEPT !.mods[1].modules = MapPut(@, mod_ctx.name, mod_ctx)]

\* ModuleContext::add_import on the front module context
add_import(ds, import_as, import_path) ==
    IF import_as \in DOMAIN ds.mods[1].imports
    THEN [ds EXCEPT !.err = Error("DuplicateImport", import_as, "")]
    ELSE [ds EXCEPT !.mods[1].imports = MapPut(@, import_as, import_path)]

\* declare_fn_decl with a module's function table that takes a name twice,
\* the later definition replacing the earlier
declare_fn_decl_overwrite(ds, decl) ==
    LET full_fn_name == get_module_path(ds.mods) \o <<decl.name>>
        g == get_function_uid(ds.uid, full_fn_name)
    IN [ds EXCEPT !.uid = g[1],
                  !.fn_uid_map = MapPut(@, full_fn_name, g[2]),
                  !.mods[1].functions =
                      MapPut(@, decl.name,
                             FunctionDef(decl.name, decl.args, decl.ret, g[2]))]

\* Compiler::declare_fn_decl
declare_fn_decl(ds, decl) ==
    LET full_fn_name ==
            get_module_path(ds.mods) \o
            (IF ds.cont = <<>> THEN <<>> ELSE ds.cont) \o <<decl.name>>
        g == get_function_uid(ds.uid, full_fn_name)
        ds1 == [ds EXCEPT !.uid = g[1],
                          !.fn_uid_map = MapPut(@, full_fn_name, g[2])]
        fn_def == FunctionDef(decl.name, decl.args, decl.ret, g[2])
    IN IF ds.cont # <<>>
       THEN IF ds.cont[1] \notin DOMAIN ds1.mods[1].containers
            THEN [ds1 EXCEPT !.err = Error("UnknownContainer", ds.cont[1], "")]
            ELSE add_member_function(ds1, ds.cont[1], fn_def)
       ELSE add_function(ds1, fn_def)

RECURSIVE declare_decl(_, _)
RECURSIVE declare_decl_list(_, _)

\* Compiler::declare_impl_decl
declare_impl_decl(ds, decl) ==
    IF decl.name = decl.for
    THEN LET ds1 == IF decl.name \in DOMAIN ds.mods[1].containers THEN ds
                    ELSE [ds EXCEPT !.mods[1].containers =
                            MapPut(@, decl.name,
                                   [name |-> decl.name, functions |-> EmptyMap])]
             ds2 == declare_decl_list([ds1 EXCEPT !.cont = <<decl.name>>],
                                      decl.inner)
         IN IF ds2.err # NoErr THEN ds2 ELSE [ds2 EXCEPT !.cont = <<>>]
    ELSE [ds EXCEPT !.err = Error("Unimplemented", "impl", "")]

\* declare_mod_decl after declare_decl_list: pop_module_context and
\* add_module on the new front
declare_mod_added(ds1) ==
    IF ds1.err # NoErr THEN ds1
    ELSE add_module([ds1 EXCEPT !.mods = Tail(@)], ds1.mods[1])

\* Compiler::declare_mod_decl
declare_mod_decl(ds, decl) ==
    declare_mod_added(
        declare_decl_list(
            [ds EXCEPT !.mods = <<NewModuleContext(decl.name)>> \o @],
            decl.inner))

\* Compiler::declare_import_decl
declare_import_decl(ds, decl) == add_import(ds, decl.name, decl.for)

\* Compiler::declare_decl
declare_decl(ds, decl) ==
    CASE decl.kind = "Module" -> declare_mod_decl(ds, decl)
      [] decl.kind = "Function" -> declare_fn_decl(ds, decl)
      [] decl.kind = "Import" -> declare_import_decl(ds, decl)
      [] decl.kind = "Impl" -> declare_impl_decl(ds, decl)

\* Compiler::declare_decl_list
declare_decl_list(ds, decl_list) ==
    IF ds.err # NoErr \/ decl_list = <<>> THEN ds
    ELSE declare_decl_list(declare_decl(ds, Head(decl_list)), Tail(decl_list))

\* a foreign Function with the argument layout register_foreign_function
\* stores in it
Function(function, arg_sizes, arg_offsets) ==
    [name |-> function.name, arg_types |-> function.arg_types,
     return_type |-> function.ret, arg_sizes |-> arg_sizes,
     arg_offsets |-> arg_offsets]

\* `attempt to subtract with overflow`, the panic of a build with overflow
\* checks
OverflowPanic == Error("Panic", "attempt to subtract with overflow", "")

\* the loop of register_foreign_function over the argument types in reverse:
\* k arguments are left, i is the index (from 0) the next one is stored at
RECURSIVE foreign_arg_layout(_, _, _, _, _)
foreign_arg_layout(arg_types, k, i, arg_offset_sum, acc) ==
    IF k = 0 THEN acc
    ELSE IF get_size_of_type(arg_types[k]) < 0
    THEN [acc EXCEPT !.err = Error("UnknownType", arg_types[k], "")]
    ELSE foreign_arg_layout(
            arg_types, k - 1, IF i > 0 THEN i - 1 ELSE i,
            arg_offset_sum - get_size_of_type(arg_types[k]),
            [acc EXCEPT
                !.arg_sizes[i + 1] = get_size_of_type(arg_types[k]),
                !.arg_offsets[i + 1] =
                    arg_offset_sum - get_size_of_type(arg_types[k])])

\* register_foreign_function after the loop: the maps of the compiler and the
\* module context get the function
foreign_function_stored(ds, full_fn_name, fn_uid, function, layout) ==
    IF layout.err # NoErr THEN [ds EXCEPT !.err = layout.err]
    ELSE add_function(
            [ds EXCEPT
                !.fn_uid_map = MapPut(@, full_fn_name, fn_uid),
                !.foreign = @ \cup {fn_uid},
                !.foreign_functions =
                    <<MapPut(IF @ = <<>> THEN EmptyMap ELSE @[1], fn_uid,
                             Function(function, layout.arg_sizes,
                                      layout.arg_offsets))>>],
            FunctionDef(function.name,
                        [i \in 1..Len(function.arg_types) |->
                            Arg("", function.arg_types[i])],
                        function.ret, fn_uid))

\* register_foreign_function after get_function_uid returned g; n is the
\* number of arguments.  `arg_sizes.len() - 1` is a usize subtraction: with
\* no argument it panics in a build with overflow checks and wraps in a build
\* without them, where the index is then never used
foreign_function_uid(ds, full_fn_name, g, function, n, overflow_checks) ==
    IF n = 0 /\ overflow_checks THEN [ds EXCEPT !.uid = g[1], !.err = OverflowPanic]
    ELSE foreign_function_stored(
            [ds EXCEPT !.uid = g[1]], full_fn_name, g[2], function,
            foreign_arg_layout(function.arg_types, n, n - 1, 0,
                               [arg_sizes |-> [i \in 1..n |-> 0],
                                arg_offsets |-> [i \in 1..n |-> 0],
                                err |-> NoErr]))

\* Compiler::register_foreign_function, for a function of a foreign module
\* whose context is at the front
register_foreign_function(ds, path, function, overflow_checks) ==
    foreign_function_uid(ds, path \o <<function.name>>,
                         get_function_uid(ds.uid, path \o <<function.name>>),
                         function, Len(function.arg_types), overflow_checks)

\* register_foreign_module after the functions: pop_module_context and
\* add_module on the new front
foreign_module_added(ds2) ==
    IF ds2.err # NoErr THEN ds2
    ELSE add_module([ds2 EXCEPT !.mods = Tail(@)], ds2.mods[1])

\* Compiler::register_foreign_root_module, for a module of one function
register_foreign_root_module(ds, module, overflow_checks) ==
    foreign_module_added(
        register_foreign_function(
            [ds EXCEPT !.mods = <<NewModuleContext(module.name)>> \o @],
            <<"root", module.name>>, module.function, overflow_checks))

(***************************************************************************)
(* The inputs the model draws from                                         *)
(***************************************************************************)
FnAdd == FunctionDecl("add", <<Arg("a", "Int"), Arg("b", "Bool")>>, "Int")

FnRun == FunctionDecl("run", <<>>, "Void")

FnName == FunctionDecl("name", <<Arg("p", "String")>>, "String")

ImplT == ImplDecl("T", "T", <<FunctionDecl("get", <<>>, "Int")>>)

\* a module with a function
ModM == ModuleDecl("m", <<FnRun>>)

\* a module that declares a function twice
ModDup == ModuleDecl("d", <<FnRun, FnRun>>)

\* a module inside a module
ModOuter == ModuleDecl("o", <<ModuleDecl("m", <<FnRun>>)>>)

\* the foreign function print under the name of FnName
ImportPrint == ImportDecl("root::std::print", "name")

\* a module without a function
ModI == ModuleDecl("i", <<ImportPrint>>)

DeclChoices ==
    {FnAdd, FnRun, FnName, ImplT, ModM, ModDup, ModOuter, ImportPrint, ModI}

\* foreign modules of one function with one, no and three arguments
ForeignStd ==
    [name |-> "std",
     function |-> [name |-> "print", arg_types |-> <<"String">>,
                   ret |-> "Void"]]

ForeignTime ==
    [name |-> "time",
     function |-> [name |-> "now", arg_types |-> <<>>, ret |-> "Int"]]

ForeignMath ==
    [name |-> "math",
     function |-> [name |-> "clamp", arg_types |-> <<"Int", "Bool", "String">>,
                   ret |-> "Int"]]

ForeignChoices == {ForeignStd, ForeignTime, ForeignMath}

\* a literal of a type
LiteralOf(t) ==
    CASE t = "Int" -> IntLiteral(1)
      [] t = "Bool" -> BoolLiteral(1)
      [] t = "Float" -> FloatLiteral(1)
      [] OTHER -> StringLiteral(2)

CallAdd == Call("add", <<IntLiteral(1), BoolLiteral(1)>>)

Visible(n) == fn_context_stack # <<>> /\ n \in DOMAIN fn_context_stack[1].vars

Declared(f) == f \in DOMAIN mod_context_stack[1].functions

\* the variable declarations drawn; the last one is `var b: int = true`
VarDecls ==
    {[name |-> "x", type |-> "Auto",
      e |-> IF Visible("a") THEN Variable("a") ELSE IntLiteral(1)],
     [name |-> "s", type |-> "String", e |-> StringLiteral(2)],
     [name |-> "y", type |-> "Int", e |-> CallAdd],
     [name |-> "b", type |-> "Int", e |-> BoolLiteral(1)]}

VarDeclChoices ==
    {d \in VarDecls :
        /\ ~Visible(d.name)
        /\ d.e.k = "Variable" => Visible(d.e.n)
        /\ d.e.k = "Call" => Declared(d.e.n)}

AssignChoices ==
    {Binary(k, Variable("x"), IntLiteral(2)) : k \in
        IF Visible("x") THEN AssignKinds ELSE {}}

CallChoices ==
    {Call(f, [i \in 1..Len(mod_context_stack[1].functions[f].arguments) |->
                LiteralOf(mod_context_stack[1].functions[f].arguments[i].type)]) :
        f \in DOMAIN mod_context_stack[1].functions}
    \cup (IF Declared("add")
          THEN {Call("add", <<CallAdd, BoolLiteral(1)>>),
                Call("add", <<IntLiteral(1)>>),
                Call("add", <<IntLiteral(1), IntLiteral(2)>>)}
          ELSE {})

\* a statement list is being compiled
InBody == phase = "compile" /\ ctrl # <<>> /\ ctrl[1].kind # "mod"

\* the function declaration whose body is being compiled
CurrentFn ==
    IF ctrl[Len(ctrl)].kind = "fn" THEN decls[decl_i + 1]
    ELSE ctrl[1 + (CHOOSE k \in 1..Len(ctrl) : ctrl[k].kind = "fn")].rest[1]

CanStmt == InBody /\ nstmts < MaxStmts /\ ~ctrl[1].term

\* calls by unqualified name of every function and every import alias of the
\* current module and of a name that is neither, with literals for the
\* arguments of the function the name stands for
CallChoicesDecl ==
    {Call(f, [i \in 1..Len(resolve_function(mod_context_stack, f).def.arguments) |->
                LiteralOf(resolve_function(mod_context_stack, f).def.arguments[i].type)]) :
        f \in DOMAIN mod_context_stack[1].functions
              \cup DOMAIN mod_context_stack[1].imports \cup {"nope"}}

\* the return type of the function being compiled
CurrentRet == IF InBody THEN CurrentFn.ret ELSE ""

\* 1 + true
OnePlusTrue == Binary("Addition", IntLiteral(1), BoolLiteral(1))

\* return expressions of the function's return type, a sum of an Int and a
\* Bool and, as the first statement of a function, a return without a value
ReturnChoices ==
    (IF CurrentRet = "Void" \/ nstmts = 0 THEN {NoExpr} ELSE {})
    \cup (IF CurrentRet = "Int" THEN {IntLiteral(1), OnePlusTrue} ELSE {})
    \cup (IF CurrentRet = "String" THEN {StringLiteral(2)} ELSE {})
    \cup (IF CurrentRet = "Int" /\ Visible("x") THEN {Variable("x")} ELSE {})
    \cup (IF CurrentRet = "Int" /\ Declared("add") THEN {CallAdd} ELSE {})

\* the conditions drawn: one of type Bool that compiles, the Int literal 1
\* and a comparison of two Bool literals
BoolCondChoices ==
    IF Visible("x") THEN {Binary("LessThan", Variable("x"), IntLiteral(3))}
    ELSE {BoolLiteral(1)}

\* `true == true`
BoolEqualsBool == Binary("Equals", BoolLiteral(1), BoolLiteral(1))

CondChoices == BoolCondChoices \cup {IntLiteral(1), BoolEqualsBool}

(***************************************************************************)
(* Lexer.  A source is a sequence of characters; the lexer holds the       *)
(* source, the current token and the range start..end of its slice.        *)
(***************************************************************************)
Letters == {"f", "n"}

Digits == {"1"}

Whitespace == {" "}

Quote == "\""

\* the characters of the sources drawn
Chars == Letters \cup Digits \cup Whitespace \cup {Quote, "(", ")", "{", "}"}

Sources == UNION {[1..n -> Chars] : n \in 0..MaxSource}

\* the end of the longest run of characters of a set that starts after the
\* first i characters
RECURSIVE RunEnd(_, _, _)
RunEnd(source, i, set) ==
    IF i < Len(source) /\ source[i + 1] \in set THEN RunEnd(source, i + 1, set)
    ELSE i

\* Token, the tokens of one character among the characters drawn
PunctuationToken(c) ==
    CASE c = "(" -> "OpenParan"
      [] c = ")" -> "CloseParan"
      [] c = "{" -> "OpenBlock"
      [] c = "}" -> "CloseBlock"

\* variant of WordToken in which the regex of Text wins over a keyword
WordTokenText(slice) == "Text"

\* Token::Fn and Token::Text match the same slice "fn": the #[token] wins
\* over the #[regex]; the other keywords have letters that are not drawn
WordToken(slice) == IF slice = <<"f", "n">> THEN "Fn" ELSE "Text"

\* the positions of the quotes after the quote at start + 1
ClosingQuotes(source, start) ==
    {j \in (start + 2)..Len(source) : source[j] = Quote}

Lexed(source, token, start, end) ==
    [source |-> source, token |-> token, start |-> start, end |-> end]

\* Token::StringLiteral: from a quote to the next quote; Token::Error when
\* there is none
string_token(source, start) ==
    IF ClosingQuotes(source, start) = {}
    THEN Lexed(source, "Error", start, start + 1)
    ELSE Lexed(source, "StringLiteral", start,
               CHOOSE j \in ClosingQuotes(source, start) :
                   \A k \in ClosingQuotes(source, start) : j <= k)

\* the token that starts after the first start characters, the longest
\* match of a definition of Token
token_at(source, start) ==
    IF start = Len(source) THEN Lexed(source, "End", start, start)
    ELSE IF source[start + 1] \in Letters
    THEN Lexed(source,
               WordToken(SubSeq(source, start + 1,
                                RunEnd(source, start, Letters \cup Digits))),
               start, RunEnd(source, start, Letters \cup Digits))
    ELSE IF source[start + 1] \in Digits
    THEN Lexed(source, "IntLiteral", start, RunEnd(source, start, Digits))
    ELSE IF source[start + 1] = Quote THEN string_token(source, start)
    ELSE Lexed(source, PunctuationToken(source[start + 1]), start, start + 1)

\* Lexer::advance from the end of the last token: whitespace is skipped
advance(source, end) == token_at(source, RunEnd(source, end, Whitespace))

\* Token::lexer(source): the lexer on the first token
Token_lexer(source) == advance(source, 0)

(***************************************************************************)
(* State machine                                                           *)
(***************************************************************************)
\* what the last step compiled: the statement kind, the expression, the
\* variable declared (n), the stack_size of the current context before and
\* after, the number of instructions and SP before
LastRec(kind, n, e, pre, post, from, gsp0) ==
    [kind |-> kind, n |-> n, e |-> e, pre |-> pre, post |-> post,
     from |-> from, gsp0 |-> gsp0]

LastNone == LastRec("None", "", NoExpr, 0, 0, 0, 0)

\* an open handler of the compile pass; term holds when the last statement of
\* its current block is a return, a break or a continue: the programs drawn
\* have no statement after one of these in the same block; elifs counts the
\* else-if branches of an if chain; rest holds, for compile_mod_decl, the
\* declarations of the module that compile_decl_list has not handled yet
Open(kind, tag_end, tag_next, pre, gsp0, from) ==
    [kind |-> kind, tag_end |-> tag_end, tag_next |-> tag_next, pre |-> pre,
     gsp0 |-> gsp0, from |-> from, term |-> FALSE, elifs |-> 0, rest |-> <<>>]

\* the open handler of a compile_mod_decl with the declarations decl_list
OpenMod(decl_list) == [Open("mod", 0, 0, 0, 0, 0) EXCEPT !.rest = decl_list]

NoProgram ==
    [code |-> <<>>, functions |-> EmptyMap, foreign_functions |-> EmptyMap,
     data_len |-> 0]

\* Compiler::new
\* Compiler::new()
NewCompiler ==
    /\ phase = "declare"
    /\ err = NoErr
    /\ decls = <<>>
    /\ decl_i = 0
    /\ mod_context_stack = <<NewModuleContext("root")>>
    /\ fn_context_stack = <<>>
    /\ loop_ctx_stack = <<>>
    /\ fn_uid_map = EmptyMap
    /\ foreign_function_uids = {}
    /\ foreign_functions = <<EmptyMap>>
    /\ uid_generator = NewUIDGenerator
    /\ builder = NewBuilder
    /\ data = 0
    /\ current_cont = <<>>
    /\ ctrl = <<>>
    /\ program = NoProgram
    /\ nstmts = 0
    /\ resolving = <<>>
    /\ gsp = 0
    /\ last = LastNone

\* a new compiler; no source is lexed
Init == NewCompiler /\ lexer = Token_lexer(<<>>)

\* a new lexer of a source text
InitLexer == NewCompiler /\ lexer \in {Token_lexer(source) : source \in Sources}

CompileVars == <<fn_context_stack, loop_ctx_stack, builder, data, ctrl,
                 program, nstmts, gsp, last, decl_i>>

DeclVars == <<mod_context_stack, fn_uid_map, foreign_function_uids,
              foreign_functions,
              current_cont, decls, resolving, lexer>>

\* the position after a handler has ended with e: the pass goes on, the
\* error is returned by compile_root, or the thread has panicked
PhaseAfter(e) ==
    IF e = NoErr THEN phase ELSE IF e.kind = "Panic" THEN "panic" ELSE "error"

\* the declare pass state ds becomes the compiler's
SetDeclState(ds) ==
    /\ mod_context_stack' = ds.mods
    /\ fn_uid_map' = ds.fn_uid_map
    /\ uid_generator' = ds.uid
    /\ foreign_function_uids' = ds.foreign
    /\ foreign_functions' = ds.foreign_functions
    /\ current_cont' = ds.cont
    /\ err' = ds.err
    /\ phase' = PhaseAfter(ds.err)

\* the host registers a foreign module before compile_root, in a build with
\* or without overflow checks
RegisterForeign(module, overflow_checks) ==
    /\ phase = "declare"
    /\ decls = <<>>
    /\ mod_context_stack[1].modules = EmptyMap
    /\ SetDeclState(register_foreign_root_module(DeclState, module,
                                                 overflow_checks))
    /\ UNCHANGED <<decls, resolving, lexer, CompileVars>>

\* compile_root: one iteration of declare_decl_list on the root list
Declare(d) ==
    /\ phase = "declare"
    /\ Len(decls) < MaxDecls
    /\ decls' = Append(decls, d)
    /\ SetDeclState(declare_decl(DeclState, d))
    /\ UNCHANGED <<resolving, lexer, CompileVars>>

\* compile_root: the declare pass is over, the compile pass starts
BeginCompilePass ==
    /\ phase = "declare"
    /\ decls # <<>>
    /\ phase' = "compile"
    /\ UNCHANGED <<err, uid_generator, DeclVars, CompileVars>>

\* the compiler state the statement handlers work on
Cs == RunState(fn_context_stack, builder, data, gsp)

StackSize == fn_context_stack[1].stack_size

\* the handler's result cs becomes the compiler's
SetCsVars(cs) ==
    /\ fn_context_stack' = cs.stack
    /\ builder' = cs.b
    /\ data' = cs.data
    /\ gsp' = cs.gsp
    /\ err' = cs.err

SetCs(cs) ==
    /\ SetCsVars(cs)
    /\ phase' = PhaseAfter(cs.err)

\* phase after the compile pass has handled one more declaration of the root
\* list: compile_root returns Ok after the last one
AfterDecl == IF decl_i + 1 = Len(decls) THEN "done" ELSE "compile"

\* the declarations the innermost compile_decl_list has not handled yet
PendingDecls ==
    IF ctrl = <<>> THEN SubSeq(decls, decl_i + 1, Len(decls))
    ELSE ctrl[1].rest

\* compile_decl_list is about to handle a declaration
AtDecl ==
    /\ phase = "compile"
    /\ IF ctrl = <<>> THEN TRUE ELSE ctrl[1].kind = "mod"
    /\ PendingDecls # <<>>

\* compile_decl has returned Ok to the compile_decl_list whose handlers are
\* c: the list moves to its next declaration
Advance(c) ==
    /\ ctrl' = IF c = <<>> THEN <<>> ELSE [c EXCEPT ![1].rest = Tail(@)]
    /\ decl_i' = IF c = <<>> THEN decl_i + 1 ELSE decl_i

\* phase after that: compile_root returns Ok after the last declaration of
\* the root list
AdvancePhase(c) == IF c = <<>> THEN AfterDecl ELSE phase

\* Compiler::compile_decl on an Impl: compile_impl_decl does nothing
CompileImplDecl ==
    /\ AtDecl /\ PendingDecls[1].kind = "Impl"
    /\ Advance(ctrl)
    /\ phase' = AdvancePhase(ctrl)
    /\ UNCHANGED <<err, uid_generator, DeclVars, fn_context_stack,
                   loop_ctx_stack, builder, data, program, nstmts, gsp, last>>

\* Compiler::compile_decl on an Import: the arm `_ => {}`
CompileImportDecl ==
    /\ AtDecl /\ PendingDecls[1].kind = "Import"
    /\ Advance(ctrl)
    /\ phase' = AdvancePhase(ctrl)
    /\ UNCHANGED <<err, uid_generator, DeclVars, fn_context_stack,
                   loop_ctx_stack, builder, data, program, nstmts, gsp, last>>

\* Compiler::compile_mod_decl up to the declaration list of the module: the
\* context pushed is a new one, not the one the declare pass filled
CompileModBegin ==
    /\ AtDecl /\ PendingDecls[1].kind = "Module"
    /\ IF PendingDecls[1].name \notin DOMAIN mod_context_stack[1].modules
       THEN /\ err' = Error("UnknownModule", PendingDecls[1].name, "")
            /\ phase' = "error"
            /\ UNCHANGED <<mod_context_stack, ctrl>>
       ELSE /\ mod_context_stack' =
                   <<NewModuleContext(PendingDecls[1].name)>> \o mod_context_stack
            /\ ctrl' = <<OpenMod(PendingDecls[1].inner)>> \o ctrl
            /\ UNCHANGED <<phase, err>>
    /\ UNCHANGED <<uid_generator, fn_uid_map, foreign_function_uids,
                   foreign_functions, current_cont, decls, resolving, lexer,
                   fn_context_stack, loop_ctx_stack,
                   builder, data, program, nstmts, gsp, last, decl_i>>

\* Compiler::compile_mod_decl after the declaration list of the module
CompileModEnd ==
    /\ phase = "compile" /\ ctrl # <<>> /\ ctrl[1].kind = "mod"
    /\ ctrl[1].rest = <<>>
    /\ mod_context_stack' = Tail(mod_context_stack)
    /\ Advance(Tail(ctrl))
    /\ phase' = AdvancePhase(Tail(ctrl))
    /\ UNCHANGED <<err, uid_generator, fn_uid_map, foreign_function_uids,
                   foreign_functions, current_cont, decls, resolving, lexer,
                   fn_context_stack, loop_ctx_stack,
                   builder, data, program, nstmts, gsp, last>>

\* compile_fn_decl: the label is pushed and the function's context
compile_fn_push(fn_def, full_fn_name) ==
    /\ builder' = push_label(builder, full_fn_name)
    /\ fn_context_stack' = <<NewFunctionContext(fn_def)>> \o fn_context_stack
    /\ ctrl' = <<Open("fn", 0, 0, 0, 0, Len(builder.code))>> \o ctrl
    /\ gsp' = 0
    /\ UNCHANGED <<phase, err>>

\* Compiler::compile_fn_decl up to the statement list
CompileFnBegin ==
    /\ AtDecl /\ PendingDecls[1].kind = "Function"
    /\ IF PendingDecls[1].name \notin DOMAIN mod_context_stack[1].functions
       THEN /\ err' = Error("UnknownFunction", PendingDecls[1].name, "")
            /\ phase' = "error"
            /\ UNCHANGED <<builder, fn_context_stack, ctrl, gsp>>
       ELSE compile_fn_push(
                mod_context_stack[1].functions[PendingDecls[1].name],
                get_module_path(mod_context_stack) \o <<PendingDecls[1].name>>)
    /\ last' = LastNone
    /\ UNCHANGED <<uid_generator, DeclVars, loop_ctx_stack, data, program,
                   nstmts, decl_i>>

\* compile_fn_decl: the HALT after the body and the return to
\* compile_decl_list
compile_fn_halt(cs1) ==
    /\ SetCsVars(IF cs1.err # NoErr THEN cs1
                 ELSE PushExit(cs1, Instr("HALT", <<1>>)))
    /\ phase' = IF cs1.err = NoErr THEN AdvancePhase(Tail(ctrl)) ELSE "error"

\* Compiler::compile_fn_decl after the statement list
CompileFnEnd ==
    /\ InBody /\ ctrl[1].kind = "fn"
    /\ compile_fn_halt(IF CurrentFn.ret = "Void"
                       THEN compile_return_stmt(Cs, NoExpr) ELSE Cs)
    /\ last' = LastRec("FnEnd", "", NoExpr, StackSize, StackSize,
                       Len(builder.code), gsp)
    /\ Advance(Tail(ctrl))
    /\ UNCHANGED <<uid_generator, DeclVars, loop_ctx_stack, program, nstmts>>

\* Compiler::compile_var_decl_stmt
VarDeclStmt(d) ==
    /\ CanStmt
    /\ LET cs == compile_var_decl_stmt(Cs, d.name, d.type, d.e)
       IN /\ SetCs(cs)
          /\ last' = LastRec("VarDecl", d.name, d.e, StackSize,
                             cs.stack[1].stack_size, Len(builder.code), gsp)
    /\ nstmts' = nstmts + 1
    /\ UNCHANGED <<uid_generator, DeclVars, loop_ctx_stack, ctrl, program,
                   decl_i>>

\* Compiler::compile_expr_stmt on an assignment
AssignStmt(e) ==
    /\ CanStmt
    /\ LET cs == compile_var_assign_stmt_expr(Cs, e)
       IN /\ SetCs(cs)
          /\ last' = LastRec("Assign", "", e, StackSize, cs.stack[1].stack_size,
                             Len(builder.code), gsp)
    /\ nstmts' = nstmts + 1
    /\ UNCHANGED <<uid_generator, DeclVars, loop_ctx_stack, ctrl, program,
                   decl_i>>

\* Compiler::compile_expr_stmt on a call
CallStmt(e) ==
    /\ CanStmt
    /\ LET cs == RunExpr(Cs, e)
       IN /\ SetCs(cs)
          /\ last' = LastRec("Call", "", e, StackSize, cs.stack[1].stack_size,
                             Len(builder.code), gsp)
    /\ nstmts' = nstmts + 1
    /\ UNCHANGED <<uid_generator, DeclVars, loop_ctx_stack, ctrl, program,
                   decl_i>>

\* Compiler::compile_return_stmt
ReturnStmt(e) ==
    /\ CanStmt
    /\ LET cs == compile_return_stmt(Cs, e)
       IN /\ SetCs(cs)
          /\ last' = LastRec("Return", "", e, StackSize, cs.stack[1].stack_size,
                             Len(builder.code), gsp)
    /\ nstmts' = nstmts + 1
    /\ ctrl' = [ctrl EXCEPT ![1].term = TRUE]
    /\ UNCHANGED <<uid_generator, DeclVars, loop_ctx_stack, program, decl_i>>

\* the end of a block of an if chain: pop_function_context and
\* compile_stack_cleanup_block
CloseBlock(cs) ==
    compile_stack_cleanup_block([cs EXCEPT !.stack = Tail(@)], cs.stack[1])

\* the tagged JMP at the end of a branch of an if chain
JmpEnd(cs, tag_end) ==
    [cs EXCEPT !.b = push_instr(tag(@, tag_end), Instr("JMP", <<tag_end>>))]

\* variant of PatchNext that leaves the placeholder operand of the JMPF
PatchNextKept(cs, tag_next, pos) ==
    IF tag_next \notin DOMAIN cs.b.tags \/ get_instr(cs.b, cs.b.tags[tag_next][1]) = 0
    THEN CsFail(cs, Error("Unknown", "", ""))
    ELSE cs

\* the first instruction recorded under tag_next gets the target pos
PatchNext(cs, tag_next, pos) ==
    IF tag_next \notin DOMAIN cs.b.tags \/ get_instr(cs.b, cs.b.tags[tag_next][1]) = 0
    THEN CsFail(cs, Error("Unknown", "", ""))
    ELSE [cs EXCEPT !.b = set_target(@, cs.b.tags[tag_next][1], pos)]

\* variant of PatchAll that patches the first recorded site only
PatchAllFirstOnly(cs, t, pos) ==
    IF t \notin DOMAIN cs.b.tags
       \/ \E i \in 1..Len(cs.b.tags[t]) : get_instr(cs.b, cs.b.tags[t][i]) = 0
    THEN CsFail(cs, Error("Unknown", "", ""))
    ELSE [cs EXCEPT !.b = set_target(@, cs.b.tags[t][1], pos)]

\* every instruction recorded under a tag gets the target pos
PatchAll(cs, t, pos) ==
    IF t \notin DOMAIN cs.b.tags
       \/ \E i \in 1..Len(cs.b.tags[t]) : get_instr(cs.b, cs.b.tags[t][i]) = 0
    THEN CsFail(cs, Error("Unknown", "", ""))
    ELSE [cs EXCEPT !.b = set_targets(@, cs.b.tags[t], pos)]

\* the condition of an if or an else-if: type check, compile, tagged JMPF,
\* new weak context
IfCondition(cs, cond, tag_next) ==
    LET ty == check_expr_type(cs.stack, cond)
        cs1 == RunExpr(cs, cond)
        cs2 == [cs1 EXCEPT !.b = push_instr(tag(@, tag_next),
                                   Instr("JMPF", <<CsLastReg(cs1), tag_next>>))]
    IN IF ty.err # NoErr THEN CsFail(cs, ty.err)
       ELSE IF ty.t # "Bool" THEN CsFail(cs, Error("TypeMismatch", ty.t, "Bool"))
       ELSE IF cs1.err # NoErr THEN cs1
       ELSE [cs2 EXCEPT !.stack = <<new_weak(cs2.stack[1])>> \o @]

\* the tags of compile_if_stmt with one tag for the end of the chain and for
\* the next branch
if_tags_shared(g) ==
    [gen |-> generate(g)[1], tag_end |-> generate(g)[2],
     tag_next |-> generate(g)[2]]

\* Compiler::compile_if_stmt, the two tags it generates first: one for the
\* end of the chain, one for the next branch
if_tags(g) ==
    [gen |-> generate(generate(g)[1])[1], tag_end |-> generate(g)[2],
     tag_next |-> generate(generate(g)[1])[2]]

\* Compiler::compile_if_stmt up to the statement list of the if block
IfBegin(cond) ==
    /\ CanStmt /\ Len(ctrl) <= MaxDepth
    /\ LET tags == if_tags(uid_generator)
           tag_end == tags.tag_end
           tag_next == tags.tag_next
           cs == IfCondition(Cs, cond, tag_next)
       IN /\ uid_generator' = tags.gen
          /\ SetCs(cs)
          /\ ctrl' = <<Open("if", tag_end, tag_next, StackSize, gsp,
                            Len(builder.code))>> \o ctrl
          /\ last' = LastRec("IfBegin", "", cond, StackSize, StackSize,
                             Len(builder.code), gsp)
    /\ nstmts' = nstmts + 1
    /\ UNCHANGED <<DeclVars, loop_ctx_stack, program, decl_i>>

\* Compiler::compile_if_stmt: one iteration of the else-if loop, up to the
\* statement list of the else-if block
ElseIfBegin(cond) ==
    /\ InBody /\ ctrl[1].kind \in {"if", "elif"} /\ ctrl[1].elifs < MaxElseIf
    /\ LET cs1 == JmpEnd(CloseBlock(Cs), ctrl[1].tag_end)
           pos == get_current_offset(cs1.b)
           cs2 == PatchNext(cs1, ctrl[1].tag_next, pos)
           ty == check_expr_type(cs2.stack, cond)
           g == generate(uid_generator)
           \* the tag is generated after the condition has been compiled
           cs3 == IF cs2.err # NoErr THEN cs2 ELSE IfCondition(cs2, cond, g[2])
           generated == cs2.err = NoErr /\ ty.err = NoErr /\ ty.t = "Bool"
                        /\ RunExpr(cs2, cond).err = NoErr
       IN /\ uid_generator' = IF generated THEN g[1] ELSE uid_generator
          /\ SetCs(cs3)
          /\ ctrl' = [ctrl EXCEPT ![1].kind = "elif", ![1].tag_next = g[2],
                                  ![1].term = FALSE, ![1].elifs = @ + 1]
          /\ last' = LastRec("ElseIfBegin", "", cond, ctrl[1].pre, ctrl[1].pre,
                             Len(builder.code), gsp)
    /\ UNCHANGED <<DeclVars, loop_ctx_stack, program, decl_i, nstmts>>

\* Compiler::compile_if_stmt: the else branch up to its statement list
ElseBegin ==
    /\ InBody /\ ctrl[1].kind \in {"if", "elif"}
    /\ LET cs1 == JmpEnd(CloseBlock(Cs), ctrl[1].tag_end)
           pos == get_current_offset(cs1.b)
           cs2 == PatchNext(cs1, ctrl[1].tag_next, pos)
           cs3 == IF cs2.err # NoErr THEN cs2
                  ELSE [cs2 EXCEPT !.stack = <<new_weak(cs2.stack[1])>> \o @]
       IN /\ SetCs(cs3)
          /\ last' = LastRec("ElseBegin", "", NoExpr, ctrl[1].pre, ctrl[1].pre,
                             Len(builder.code), gsp)
    /\ ctrl' = [ctrl EXCEPT ![1].kind = "else", ![1].term = FALSE]
    /\ UNCHANGED <<uid_generator, DeclVars, loop_ctx_stack, program, nstmts,
                   decl_i>>

\* Compiler::compile_if_stmt from the end of the last block: the last JMPF is
\* patched when there is no else, then every tag_end site
IfEnd ==
    /\ InBody /\ ctrl[1].kind \in {"if", "elif", "else"}
    /\ LET cs1 == IF ctrl[1].kind = "else" THEN CloseBlock(Cs)
                  ELSE LET c == JmpEnd(CloseBlock(Cs), ctrl[1].tag_end)
                       IN PatchNext(c, ctrl[1].tag_next, get_current_offset(c.b))
           pos_end == get_current_offset(cs1.b)
           cs2 == IF cs1.err # NoErr THEN cs1
                  ELSE PatchAll(cs1, ctrl[1].tag_end, pos_end)
       IN /\ SetCs(cs2)
          /\ last' = LastRec("If", "", NoExpr, ctrl[1].pre,
                             cs2.stack[1].stack_size, ctrl[1].from, ctrl[1].gsp0)
    /\ ctrl' = Tail(ctrl)
    /\ UNCHANGED <<uid_generator, DeclVars, loop_ctx_stack, program, nstmts,
                   decl_i>>

\* LoopContext::new
LoopContext(pos_start, tag_end) == [pos_start |-> pos_start, tag_end |-> tag_end]

\* variant of compile_break_stmt that takes the loop context at the back of
\* the stack, the outermost loop
compile_break_stmt_outermost(cs, loops) ==
    LET cs1 == compile_stack_loop(cs)
    IN IF loops = <<>> THEN CsFail(cs1, Error("Unknown", "", ""))
       ELSE [cs1 EXCEPT !.b = push_instr(tag(@, loops[Len(loops)].tag_end),
                                  Instr("JMP", <<loops[Len(loops)].tag_end>>))]

\* Compiler::compile_break_stmt; loops is the loop context stack
compile_break_stmt(cs, loops) ==
    LET cs1 == compile_stack_loop(cs)
    IN IF loops = <<>> THEN CsFail(cs1, Error("Unknown", "", ""))
       ELSE [cs1 EXCEPT !.b = push_instr(tag(@, loops[1].tag_end),
                                  Instr("JMP", <<loops[1].tag_end>>))]

\* Compiler::compile_continue_stmt
compile_continue_stmt(cs, loops) ==
    LET cs1 == compile_stack_loop(cs)
    IN IF loops = <<>> THEN CsFail(cs1, Error("Unknown", "", ""))
       ELSE PushExit(cs1, Instr("JMP", <<loops[1].pos_start>>))

\* Compiler::compile_while_stmt up to the statement list
WhileBegin(cond) ==
    /\ CanStmt /\ Len(ctrl) <= MaxDepth
    /\ LET stack1 == <<new_loop(fn_context_stack[1])>> \o fn_context_stack
           while_start_pos == get_current_offset(builder)
           g == generate(uid_generator)
           tag_end == g[2]
           cs == RunState(stack1, builder, data, gsp)
           ty == check_expr_type(stack1, cond)
           cs1 == RunExpr(cs, cond)
           cs2 == [cs1 EXCEPT !.b = push_instr(tag(@, tag_end),
                                      Instr("JMPF", <<CsLastReg(cs1), tag_end>>))]
           cs3 == IF ty.err # NoErr THEN CsFail(cs, ty.err)
                  ELSE IF ty.t # "Bool"
                  THEN CsFail(cs, Error("TypeMismatch", "Bool", ty.t))
                  ELSE IF cs1.err # NoErr THEN cs1
                  ELSE cs2
       IN /\ uid_generator' = g[1]
          /\ loop_ctx_stack' =
                 <<LoopContext(while_start_pos, tag_end)>> \o loop_ctx_stack
          /\ SetCs(cs3)
          /\ ctrl' = <<Open("while", tag_end, 0, StackSize, gsp,
                            Len(builder.code))>> \o ctrl
          /\ last' = LastRec("WhileBegin", "", cond, StackSize, StackSize,
                             Len(builder.code), gsp)
    /\ nstmts' = nstmts + 1
    /\ UNCHANGED <<DeclVars, program, decl_i>>

\* Compiler::compile_while_stmt after the statement list
WhileEnd ==
    /\ InBody /\ ctrl[1].kind = "while"
    /\ LET cs1 == compile_continue_stmt(Cs, loop_ctx_stack)
           while_end_pos == get_current_offset(cs1.b)
           while_loop_ctx == loop_ctx_stack[1]
           cs2 == IF cs1.err # NoErr THEN cs1
                  ELSE PatchAll(cs1, while_loop_ctx.tag_end, while_end_pos)
           \* the loop is left by its JMPF or a break, with the SP it was
           \* entered with
           cs3 == IF cs2.err # NoErr THEN cs2
                  ELSE [cs2 EXCEPT !.stack = Tail(@), !.gsp = ctrl[1].gsp0]
       IN /\ SetCs(cs3)
          /\ loop_ctx_stack' = IF cs1.err # NoErr THEN loop_ctx_stack
                               ELSE Tail(loop_ctx_stack)
          /\ last' = LastRec("While", "", NoExpr, ctrl[1].pre,
                             (IF cs2.err # NoErr THEN cs2.stack[1]
                              ELSE cs2.stack[2]).stack_size,
                             ctrl[1].from, ctrl[1].gsp0)
    /\ ctrl' = Tail(ctrl)
    /\ UNCHANGED <<uid_generator, DeclVars, program, nstmts, decl_i>>

\* Compiler::compile_break_stmt
BreakStmt ==
    /\ CanStmt /\ (loop_ctx_stack # <<>> \/ Len(ctrl) = 1)
    /\ LET cs == compile_break_stmt(Cs, loop_ctx_stack)
       IN /\ SetCs(cs)
          /\ last' = LastRec("Break", "", NoExpr, StackSize,
                             cs.stack[1].stack_size, Len(builder.code), gsp)
    /\ nstmts' = nstmts + 1
    /\ ctrl' = [ctrl EXCEPT ![1].term = TRUE]
    /\ UNCHANGED <<uid_generator, DeclVars, loop_ctx_stack, program, decl_i>>

\* Compiler::compile_continue_stmt
ContinueStmt ==
    /\ CanStmt /\ (loop_ctx_stack # <<>> \/ Len(ctrl) = 1)
    /\ LET cs == compile_continue_stmt(Cs, loop_ctx_stack)
       IN /\ SetCs(cs)
          /\ last' = LastRec("Continue", "", NoExpr, StackSize,
                             cs.stack[1].stack_size, Len(builder.code), gsp)
    /\ nstmts' = nstmts + 1
    /\ ctrl' = [ctrl EXCEPT ![1].term = TRUE]
    /\ UNCHANGED <<uid_generator, DeclVars, loop_ctx_stack, program, decl_i>>

\* the relocation loop of get_program: every recorded jump site gets its
\* 8-byte target plus data_len
RECURSIVE Relocate(_, _, _)
Relocate(b, offsets, data_len) ==
    IF offsets = <<>> THEN b
    ELSE LET i == get_instr(b, Head(offsets))
             addr == b.code[i].args[JumpArg(b.code[i])]
         IN Relocate(set_target(b, Head(offsets), addr + data_len),
                     Tail(offsets), data_len)

\* Compiler::get_program
GetProgram ==
    /\ phase = "done"
    /\ LET data_len == data
           sites_ok == \A k \in 1..Len(builder.jmp_instructions) :
                          LET i == get_instr(builder, builder.jmp_instructions[k])
                          IN i # 0 /\ IsJump(builder.code[i])
           b == Relocate(builder, builder.jmp_instructions, data_len)
           native == {n \in DOMAIN fn_uid_map :
                        fn_uid_map[n] \notin foreign_function_uids}
           labels_ok == \A n \in native : n \in DOMAIN builder.labels
           uids == {fn_uid_map[n] : n \in native}
           name_of(u) == CHOOSE n \in native : fn_uid_map[n] = u
       IN IF ~sites_ok \/ ~labels_ok \/ foreign_functions = <<>>
          THEN /\ phase' = "no_program"
               /\ err' = Error("Unknown", "", "")
               /\ UNCHANGED <<program, foreign_functions>>
          ELSE /\ phase' = "program"
               /\ program' = [code |-> b.code,
                              functions |-> [u \in uids |->
                                  builder.labels[name_of(u)] + data_len],
                              foreign_functions |-> foreign_functions[1],
                              data_len |-> data_len]
               /\ foreign_functions' = <<>>
               /\ UNCHANGED err
    /\ UNCHANGED <<uid_generator, mod_context_stack, fn_uid_map,
                   foreign_function_uids, current_cont, decls, resolving, lexer,
                   fn_context_stack, loop_ctx_stack, builder, data, ctrl,
                   nstmts, gsp, last, decl_i>>

\* compile_root on a declaration list of one function, and get_program
Next ==
    \/ \E d \in DeclChoices : decls = <<>> /\ d.kind = "Function" /\ Declare(d)
    \/ BeginCompilePass
    \/ CompileFnBegin
    \/ CompileFnEnd
    \/ \E d \in VarDeclChoices : VarDeclStmt(d)
    \/ \E e \in AssignChoices : AssignStmt(e)
    \/ \E e \in CallChoices : CallStmt(e)
    \/ \E e \in ReturnChoices : ReturnStmt(e)
    \/ \E c \in CondChoices : IfBegin(c)
    \/ \E c \in CondChoices : ElseIfBegin(c)
    \/ ElseBegin
    \/ IfEnd
    \/ \E c \in CondChoices : WhileBegin(c)
    \/ WhileEnd
    \/ BreakStmt
    \/ ContinueStmt
    \/ GetProgram

Spec == Init /\ [][Next]_vars

\* the function is the first of two declarations and no call has been
\* compiled in it yet
LeadingStmt ==
    /\ decl_i = 0
    /\ Len(decls) = 2
    /\ last.kind \in {"None", "IfBegin", "If", "WhileBegin", "While"}

\* the host's registrations, compile_root on a declaration tree whose
\* functions are calls with at most a return at the end, after if statements
\* and loops in the first function of a list of two, and get_program
NextDecl ==
    \/ \E m \in ForeignChoices, c \in BOOLEAN : RegisterForeign(m, c)
    \/ \E d \in DeclChoices : Declare(d)
    \/ BeginCompilePass
    \/ CompileImplDecl
    \/ CompileImportDecl
    \/ CompileModBegin
    \/ CompileModEnd
    \/ CompileFnBegin
    \/ \E e \in ReturnChoices : InBody /\ ctrl[1].kind = "fn" /\ ReturnStmt(e)
    \/ \E e \in CallChoicesDecl : InBody /\ ctrl[1].kind = "fn" /\ CallStmt(e)
    \/ \E c \in BoolCondChoices : LeadingStmt /\ IfBegin(c)
    \/ IfEnd
    \/ \E c \in BoolCondChoices : LeadingStmt /\ WhileBegin(c)
    \/ WhileEnd
    \/ CompileFnEnd
    \/ GetProgram

SpecDecl == Init /\ [][NextDecl]_vars

\* literals of the four types and a variable no context has
LeafExprs ==
    {IntLiteral(1), FloatLiteral(1), BoolLiteral(1), StringLiteral(2),
     Variable("x")}

\* the operands: leaves and expressions over leaves
OperandExprs ==
    LeafExprs
    \cup {Unary("Not", a) : a \in LeafExprs}
    \cup {Binary(k, a, b) : k \in {"And", "Or", "LessThan", "Addition"},
                            a \in LeafExprs, b \in LeafExprs}

\* the logical expressions over the operands
LogicalExprs ==
    {Unary("Not", a) : a \in OperandExprs}
    \cup {Binary(k, a, b) : k \in {"And", "Or"},
                            a \in OperandExprs, b \in OperandExprs}

\* the host calls Compiler::check_expr_type on a new compiler; the type
\* returned is recorded in last.n
CheckExprType(e) ==
    /\ phase = "declare"
    /\ last = LastNone
    /\ err' = check_expr_type(fn_context_stack, e).err
    /\ last' = LastRec("CheckExprType", check_expr_type(fn_context_stack, e).t,
                       e, 0, 0, 0, 0)
    /\ UNCHANGED <<phase, uid_generator, DeclVars, fn_context_stack,
                   loop_ctx_stack, builder, data, ctrl, program, nstmts, gsp,
                   decl_i>>

\* the expressions the standalone checker has arms for: arithmetic,
\* comparisons and Not over leaves, and Not over a comparison
CheckerExprs ==
    {Binary(k, a, b) : k \in ArithKinds \cup CompareKinds,
                       a \in LeafExprs, b \in LeafExprs}
    \cup {Unary("Not", a) : a \in LeafExprs}
    \cup {Unary("Not", Binary("LessThan", a, b)) : a \in LeafExprs,
                                                  b \in LeafExprs}

\* the host calls Checker::check_expr_type of a checker of a new compiler;
\* the type returned is recorded in last.n
CheckerCheckExprType(e) ==
    /\ phase = "declare"
    /\ last = LastNone
    /\ err' = checker_check_expr_type(fn_context_stack, e).err
    /\ last' = LastRec("CheckerCheckExprType",
                       checker_check_expr_type(fn_context_stack, e).t,
                       e, 0, 0, 0, 0)
    /\ UNCHANGED <<phase, uid_generator, DeclVars, fn_context_stack,
                   loop_ctx_stack, builder, data, ctrl, program, nstmts, gsp,
                   decl_i>>

\* one expression is checked
ExprChoices == IF last = LastNone THEN LogicalExprs ELSE {}

CheckerExprChoices == IF last = LastNone THEN CheckerExprs ELSE {}

NextExpr ==
    \/ \E e \in ExprChoices : CheckExprType(e)
    \/ \E e \in CheckerExprChoices : CheckerCheckExprType(e)

SpecExpr == Init /\ [][NextExpr]_vars

\* imports whose path is an alias: of themselves, or of each other
ImportSelf == ImportDecl("self", "self")

ImportA == ImportDecl("b", "a")

ImportB == ImportDecl("a", "b")

\* an import of an alias of a function
ImportRun == ImportDecl("run", "r")

ResolveDeclChoices ==
    {FnRun, ImplT, ModM, ModOuter, ImportPrint, ImportSelf, ImportA, ImportB,
     ImportRun}

\* the names resolve_function is called with
ResolveNames ==
    {"run", "nope", "name", "self", "a", "r", "root::std::print",
     "root::m::run", "root::m::nope", "m::run", "o::m::run", "T::get",
     "super::run"}

\* the host calls Compiler::resolve_function after the declare pass
ResolveBegin(name) ==
    /\ phase = "declare"
    /\ resolving = <<>>
    /\ last = LastNone
    /\ resolving' = <<name>>
    /\ last' = LastRec("ResolveBegin", name, NoExpr, 0, 0, 0, 0)
    /\ UNCHANGED <<phase, err, decls, decl_i, mod_context_stack,
                   fn_context_stack, loop_ctx_stack, fn_uid_map,
                   foreign_function_uids, foreign_functions, uid_generator,
                   builder, data, current_cont, ctrl, program, nstmts, gsp,
                   lexer>>

\* the active call of resolve_function returns r: the uid of the function
\* found is recorded in last.post
resolve_returns(r) ==
    /\ resolving' = r.next
    /\ err' = r.err
    /\ phase' = IF r.err.kind = "Panic" THEN "panic" ELSE phase
    /\ last' = IF r.next # <<>> THEN last
               ELSE [last EXCEPT !.kind = "ResolveFunction", !.post = r.def.uid]

\* Compiler::resolve_function: the active call returns or calls itself on
\* the path of an import
ResolveStep ==
    /\ resolving # <<>>
    /\ resolve_returns(resolve_function_call(mod_context_stack, resolving[1]))
    /\ UNCHANGED <<decls, decl_i, mod_context_stack, fn_context_stack,
                   loop_ctx_stack, fn_uid_map, foreign_function_uids,
                   foreign_functions, uid_generator, builder, data,
                   current_cont, ctrl, program, nstmts, gsp, lexer>>

NextResolve ==
    \/ \E m \in ForeignChoices, c \in BOOLEAN :
          resolving = <<>> /\ last = LastNone /\ RegisterForeign(m, c)
    \/ \E d \in ResolveDeclChoices :
          resolving = <<>> /\ last = LastNone /\ Declare(d)
    \/ \E name \in ResolveNames : ResolveBegin(name)
    \/ ResolveStep

\* a call of resolve_function that can go on does go on
SpecResolve == Init /\ [][NextResolve]_vars /\ WF_vars(ResolveStep)

\* lexer.advance() of the host, up to the end or the first error
LexerAdvance ==
    /\ lexer.token \notin {"End", "Error"}
    /\ lexer' = advance(lexer.source, lexer.end)
    /\ UNCHANGED <<phase, err, decls, decl_i, mod_context_stack,
                   fn_context_stack, loop_ctx_stack, fn_uid_map,
                   foreign_function_uids, foreign_functions, uid_generator,
                   builder, data, current_cont, ctrl, program, nstmts,
                   resolving, gsp, last>>

NextLexer == LexerAdvance

SpecLexer == InitLexer /\ [][NextLexer]_vars

(***************************************************************************)
(* Properties                                                              *)
(***************************************************************************)
\* the jump instructions of the program returned by get_program
ProgramJumps == {i \in 1..Len(program.code) : IsJump(program.code[i])}

\* the target operand of the i-th instruction of the program
ProgramTarget(i) == program.code[i].args[JumpArg(program.code[i])]

\* C1: after get_program the operand of every JMP, JMPF and JMPT of the image
\* is data_len plus a code offset at which an emitted instruction starts
C1_JumpTargetsAreInstructionStarts ==
    phase = "program" =>
        \A i \in ProgramJumps :
            \E o \in InstrStarts(builder) : ProgramTarget(i) = program.data_len + o

\* C1 happens: the program of a function with a data segment and a loop with
\* a break: a JMPF, a forward JMP and a backward JMP, all relocated
C1_Witness ==
    /\ phase = "program"
    /\ program.data_len > 0
    /\ \E i \in ProgramJumps : program.code[i].op = "JMPF"
    /\ \E i \in ProgramJumps :
          /\ program.code[i].op = "JMP"
          /\ ProgramTarget(i) > program.data_len + builder.offsets[i]
    /\ \E i \in ProgramJumps :
          /\ program.code[i].op = "JMP"
          /\ ProgramTarget(i) < program.data_len + builder.offsets[i]

\* the full names of the declared functions that are not foreign
NativeNames ==
    {n \in DOMAIN fn_uid_map : fn_uid_map[n] \notin foreign_function_uids}

\* C2: after compile_root succeeds get_program succeeds, and the keys of its
\* functions table are exactly the uids of the declared non-foreign
\* functions, each mapped to data_len plus the offset of the function's label
C2_FunctionsTableComplete ==
    /\ phase # "no_program"
    /\ phase = "program" =>
          /\ DOMAIN program.functions = {fn_uid_map[n] : n \in NativeNames}
          /\ DOMAIN program.functions \cap foreign_function_uids = {}
          /\ \A n \in NativeNames :
                /\ n \in DOMAIN builder.labels
                /\ program.functions[fn_uid_map[n]] =
                       program.data_len + builder.labels[n]

\* the instructions pushed by the last step
Emitted == SubSeq(builder.code, last.from + 1, Len(builder.code))

\* the last step compiled a statement of the given kinds without an error
Compiled(kinds) == last.kind \in kinds /\ err = NoErr

\* the sum of stack_size over the function contexts 1..n, from the front
StackBytes(n) == SumSeq([i \in 1..n |-> fn_context_stack[i].stack_size])

\* C3: compiling an assignment, a compound assignment, a call statement, an
\* if chain, a while loop, a break or a continue leaves the stack_size of the
\* current function context as it was, and compiling a variable declaration
\* of type T adds exactly size_of(T) to it
C3_StatementsKeepStackSize ==
    /\ Compiled({"Assign", "Call", "If", "While", "Break", "Continue"}) =>
          last.post = last.pre
    /\ Compiled({"VarDecl"}) =>
          last.post = last.pre
              + get_size_of_type(fn_context_stack[1].vars[last.n].type)

\* the definition of the function a call expression names
Callee(e) == mod_context_stack[1].functions[e.n]

\* total size of the arguments of a function definition
TotalArgSize(fn_def) == SumSeq(ArgSizes(fn_def.arguments))

\* C4: a call with arguments of total size A to a function of return size R
\* ends with the copy of the return value from [SP-R] to [SP-A-R] and the
\* stack shrink by A, and leaves stack_size at its value before the call
\* plus R
C4_CallPopsItsArguments ==
    Compiled({"Call"}) =>
        LET A == TotalArgSize(Callee(last.e))
            R == get_size_of_type(Callee(last.e).ret_type)
            n == Len(Emitted)
        IN /\ n >= 3
           /\ Emitted[n - 2].op = "CALL"
           /\ Emitted[n - 1].op = "MOVN_A"
           /\ Emitted[n - 1].args = <<SP, -R, SP, -(A + R), R>>
           /\ Emitted[n].op = "SUBU_I"
           /\ Emitted[n].args = <<SP, A, SP>>
           /\ last.post = last.pre + R

\* C5: a well-typed call to a declared function is accepted as a return
\* expression, as a variable initializer and as an argument of another call,
\* and the type checker gives it the return type of the callee
C5_CallsAreTyped ==
    /\ (last.kind \in {"Return", "VarDecl"} /\ last.e.k = "Call") => err = NoErr
    /\ (last.kind = "Call" /\ \E i \in 1..Len(last.e.args) :
                                  last.e.args[i].k = "Call") => err = NoErr
    /\ (last.kind \in {"Return", "VarDecl"} /\ last.e.k = "Call") =>
          check_expr_type(fn_context_stack, last.e) =
              TypeOk(Callee(last.e).ret_type)

\* C6: the cleanup of a return statement, wherever the statement sits,
\* removes the bytes the function has on the stack: the amount of its SUBU_I
\* plus the bytes kept by its MOVN_A is the sum of stack_size over every
\* function context opened since the function's entry
C6_ReturnRemovesAllBytes ==
    Compiled({"Return"}) =>
        LET n == Len(Emitted)
            kept == IF n >= 3 /\ Emitted[n - 2].op = "MOVN_A"
                    THEN Emitted[n - 2].args[5] ELSE 0
        IN /\ n >= 2
           /\ Emitted[n].op = "RET"
           /\ Emitted[n - 1].op = "SUBU_I"
           /\ Emitted[n - 1].args[1] = SP /\ Emitted[n - 1].args[3] = SP
           /\ Emitted[n - 1].args[2] + kept = StackBytes(Len(fn_context_stack))

\* index of the nearest loop-flagged function context, from the front
NearestLoop ==
    CHOOSE i \in 1..Len(fn_context_stack) :
        /\ fn_context_stack[i].is_loop
        /\ \A j \in 1..(i - 1) : ~fn_context_stack[j].is_loop

\* C7: a break inside a loop emits one SUBU_I SP, k, SP followed by the jump,
\* where k is the sum of stack_size over the function contexts from the
\* innermost one up to and including the nearest loop-flagged one
C7_BreakUnwindsToLoop ==
    (Compiled({"Break"}) /\ loop_ctx_stack # <<>>) =>
        /\ Len(Emitted) = 2
        /\ Emitted[1].op = "SUBU_I"
        /\ Emitted[1].args = <<SP, StackBytes(NearestLoop), SP>>
        /\ Emitted[2].op = "JMP"

\* C7 happens: a break after a variable declaration in a loop body
C7_Witness ==
    /\ Compiled({"Break"}) /\ loop_ctx_stack # <<>>
    /\ StackBytes(NearestLoop) > 0
    /\ Len(fn_context_stack) > NearestLoop

\* the instructions that access a variable
VarAccesses == {i \in 1..Len(builder.code) : builder.code[i].gvar # ""}

\* the SP offset the i-th instruction uses for its variable: the offset
\* operand of a load, minus the amount of an address computation
AccessOffset(i) ==
    IF builder.code[i].op = "SUBU_I" THEN -builder.code[i].args[2]
    ELSE builder.code[i].args[2]

\* C8: every load of a variable and every address computation for a variable
\* uses an SP offset that is strictly negative and is minus the number of
\* bytes between the start of the variable's slot and SP
C8_VariableOffsetsPointAtSlot ==
    \A i \in VarAccesses :
        /\ builder.code[i].args[1] = SP
        /\ AccessOffset(i) < 0
        /\ AccessOffset(i) = -builder.code[i].gdist

\* C8 happens: a compound assignment to a variable of the enclosing function
\* inside an if block or a while body (an address computation, and a load
\* after the pointer save), in a function that has also read an argument
C8_Witness ==
    /\ Compiled({"Assign"}) /\ last.e.k = "AddAssign"
    /\ Len(fn_context_stack) >= 2
    /\ \E i \in VarAccesses : builder.code[i].gvar = "a"
    /\ \E i \in VarAccesses :
          i > last.from + 3 /\ builder.code[i].gvar = "x"
                            /\ builder.code[i].op = "MOVI_AR"

\* the instructions of the last step that store a register through a
\* register other than SP
PointerStores ==
    {i \in 1..Len(Emitted) :
        /\ Emitted[i].op \in {"MOVI_RA", "MOVF_RA", "MOVB_RA", "MOVA_RA"}
        /\ Emitted[i].args[2] # SP}

\* C9: an assignment to a variable v of a type of size at most 8 computes the
\* address of v's slot, saves it at [SP-8], reloads it after the right-hand
\* side from the position it was saved to, and stores the value register
\* through it at offset 0 with the opcode of v's type; that store is the only
\* one through a pointer
C9_AssignStoresIntoSlot ==
    Compiled({"Assign"}) =>
        LET n == Len(Emitted)
            v == last.e.args[1].n
            t == get_type_of_var(fn_context_stack, v)
        IN /\ n >= 6
           /\ Emitted[1].op = "SUBU_I" /\ Emitted[1].gvar = v
           /\ Emitted[1].args[1] = SP /\ Emitted[1].args[2] = Emitted[1].gdist
           /\ Emitted[2] = new_inc_stack(8)
           /\ Emitted[3].op = "MOVA_RA"
           /\ Emitted[3].args = <<Emitted[1].args[3], SP, -8>>
           /\ Emitted[n - 1].op = "MOVA_AR" /\ Emitted[n - 1].args[1] = SP
           /\ gsp + Emitted[n - 1].args[2] = last.gsp0
           /\ Emitted[n].op = MovRA(t)
           /\ Emitted[n].args[2] = Emitted[n - 1].args[3]
           /\ Emitted[n].args[3] = 0
           /\ Emitted[n].args[1] # Emitted[n].args[2]
           /\ PointerStores = {n}

\* C9 happens: an assignment inside a block to a variable declared outside it
C9_Witness ==
    /\ Compiled({"Assign"}) /\ last.e.k = "Assign"
    /\ Len(fn_context_stack) >= 2
    /\ Emitted[1].args[2] >= 8
    /\ Emitted[Len(Emitted)].op = "MOVI_RA"

\* the opcode a compound assignment to an Int variable is to be lowered with
CompoundOp(k) ==
    CASE k = "AddAssign" -> "ADDI"
      [] k = "SubAssign" -> "SUBI"
      [] k = "MulAssign" -> "MULI"
      [] k = "DivAssign" -> "DIVI"

\* C10: a compound assignment to an Int variable emits the arithmetic
\* instruction of its own operator (ADDI, SUBI, MULI, DIVI) on the variable
\* and the operand, followed by the store into the variable
C10_CompoundAssignUsesOwnOperator ==
    (Compiled({"Assign"}) /\ last.e.k # "Assign") =>
        LET n == Len(Emitted)
        IN /\ n >= 3
           /\ Emitted[n - 2].op = CompoundOp(last.e.k)
           /\ Emitted[n].args[1] = Emitted[n - 2].args[3]

\* C11: when compile_root has returned Ok every context pushed during the
\* compilation has been popped: no function context and no loop context is
\* left and only the root module context; and when the body of a function
\* starts compiling the function context stack holds that function's context
\* only
C11_ContextsArePopped ==
    /\ phase = "done" =>
          /\ fn_context_stack = <<>>
          /\ loop_ctx_stack = <<>>
          /\ get_module_path(mod_context_stack) = <<"root">>
    /\ (InBody /\ ctrl[1].kind = "fn" /\ last = LastNone) =>
          Len(fn_context_stack) = 1

\* the handlers of compile_mod_decl that are open
OpenModules == {k \in 1..Len(ctrl) : ctrl[k].kind = "mod"}

\* C12: a function declared inside a module is compiled: compile_root does
\* not fail inside the module, and when it has returned Ok the label of the
\* function of module m is recorded under root::m::run at the offset of an
\* instruction
C12_ModuleFunctionsAreCompiled ==
    /\ OpenModules # {} => err = NoErr
    /\ (phase = "done" /\ ModM \in Range(decls)) =>
          /\ <<"root", "m", "run">> \in DOMAIN builder.labels
          /\ builder.labels[<<"root", "m", "run">>] \in InstrStarts(builder)

\* the names of the functions the root declaration list declares
RootFunctions == {d.name : d \in {x \in Range(decls) : x.kind = "Function"}}

\* the CALL instructions of the program returned by get_program
ProgramCalls == {i \in 1..Len(program.code) : program.code[i].op = "CALL"}

RegisteredForeign ==
    IF foreign_functions = <<>> THEN program.foreign_functions
    ELSE foreign_functions[1]

\* the sizes of the argument types from the i-th on
SizesFrom(arg_types, i) ==
    SumSeq([j \in 1..(Len(arg_types) - i + 1) |->
                get_size_of_type(arg_types[i + j - 1])])

\* C14: registering a foreign function with n >= 0 arguments completes
\* without a crash, and the stored Function has arg_sizes[i] the size of the
\* i-th argument type and arg_offsets[i] minus the sum of the sizes of the
\* argument types from the i-th on (both lists empty when n = 0)
C14_ForeignRegistrationCompletes ==
    /\ err # OverflowPanic
    /\ \A u \in DOMAIN RegisteredForeign :
          LET f == RegisteredForeign[u]
          IN /\ Len(f.arg_sizes) = Len(f.arg_types)
             /\ Len(f.arg_offsets) = Len(f.arg_types)
             /\ \A i \in 1..Len(f.arg_types) :
                   /\ f.arg_sizes[i] = get_size_of_type(f.arg_types[i])
                   /\ f.arg_offsets[i] = -SizesFrom(f.arg_types, i)

\* the ids in use as tags: those instructions were recorded under and those
\* of the open if chains and loops
UsedTags ==
    DOMAIN builder.tags
    \cup {ctrl[k].tag_end : k \in {j \in 1..Len(ctrl) : ctrl[j].kind \notin {"fn", "mod"}}}
    \cup {ctrl[k].tag_next : k \in {j \in 1..Len(ctrl) : ctrl[j].kind \in {"if", "elif"}}}

FunctionUids == {fn_uid_map[n] : n \in DOMAIN fn_uid_map}

\* C15: a name keeps the uid it was given and get_function_uid returns it
\* again, two names never share a uid, and a tag generated for an if chain or
\* a loop is no function uid and no tag generated earlier (the two tags of an
\* if statement differ)
C15_UidsAreUnique ==
    [][/\ \A n \in DOMAIN fn_uid_map :
             /\ n \in DOMAIN fn_uid_map'
             /\ fn_uid_map'[n] = fn_uid_map[n]
             /\ get_function_uid(uid_generator', n)[2] = fn_uid_map[n]
       /\ \A n, m \in DOMAIN fn_uid_map' :
             n # m => fn_uid_map'[n] # fn_uid_map'[m]
       /\ (last'.kind = "IfBegin" /\ last' # last) =>
             /\ ctrl'[1].tag_end # ctrl'[1].tag_next
             /\ {ctrl'[1].tag_end, ctrl'[1].tag_next}
                    \cap (UsedTags \cup FunctionUids) = {}
       /\ (last'.kind = "WhileBegin" /\ last' # last) =>
             ctrl'[1].tag_end \notin UsedTags \cup FunctionUids
       /\ (last'.kind = "ElseIfBegin" /\ uid_generator' # uid_generator) =>
             ctrl'[1].tag_next \notin UsedTags \cup FunctionUids
      ]_vars

\* C15 happens: with two functions declared, an if statement opens in a loop
\* that follows a closed if statement
C15_Witness ==
    /\ Cardinality(DOMAIN fn_uid_map) >= 2
    /\ last.kind = "IfBegin"
    /\ Len(ctrl) >= 3
    /\ ctrl[2].kind = "while"
    /\ Cardinality(DOMAIN builder.tags) >= 4

\* e is an arithmetic expression whose operands have types, and different ones
MismatchedOperands(e) ==
    /\ e.k \in ArithKinds
    /\ check_expr_type(fn_context_stack, e.args[1]).err = NoErr
    /\ check_expr_type(fn_context_stack, e.args[2]).err = NoErr
    /\ check_expr_type(fn_context_stack, e.args[1]).t
          # check_expr_type(fn_context_stack, e.args[2]).t

TypedOperands(e) ==
    {i \in 1..Len(e.args) : check_expr_type(fn_context_stack, e.args[i]).err = NoErr}

OperandType(e, i) == check_expr_type(fn_context_stack, e.args[i]).t

\* C17: check_expr_type of a Not, And or Or returns Bool only when every
\* operand has type Bool, and returns TypeMismatch when the operands have
\* types and one of them is not Bool, two operands of the same type other
\* than Bool included
C17_LogicalOperandsAreBool ==
    (last.kind = "CheckExprType" /\ TypedOperands(last.e) = 1..Len(last.e.args)) =>
        IF \A i \in 1..Len(last.e.args) : OperandType(last.e, i) = "Bool"
        THEN err = NoErr /\ last.n = "Bool"
        ELSE err.kind = "TypeMismatch"

\* the last step emitted a CALL of the function uid
CallsUid(uid) ==
    /\ err = NoErr
    /\ \E i \in 1..Len(Emitted) :
          Emitted[i].op = "CALL" /\ Emitted[i].args = <<uid>>

\* C18: a call by an unqualified name calls the function of that name of the
\* current module when there is one, also when an import has the same alias;
\* otherwise, when the name is an import alias, what the stored path resolves
\* to: the function registered under the path, or the failure of resolving
\* it; otherwise compile_root returns UnknownFunction(name)
C18_UnqualifiedResolution ==
    (last.kind = "Call" /\ Len(Split(last.e.n)) = 1) =>
        IF last.e.n \in DOMAIN mod_context_stack[1].functions
        THEN CallsUid(fn_uid_map[get_module_path(mod_context_stack) \o <<last.e.n>>])
        ELSE IF last.e.n \in DOMAIN mod_context_stack[1].imports
        THEN IF Split(mod_context_stack[1].imports[last.e.n]) \in DOMAIN fn_uid_map
             THEN CallsUid(fn_uid_map[Split(mod_context_stack[1].imports[last.e.n])])
             ELSE /\ err = resolve_function(mod_context_stack,
                                            mod_context_stack[1].imports[last.e.n]).err
                  /\ err # NoErr
                  /\ Emitted = <<>>
        ELSE err = Error("UnknownFunction", last.e.n, "") /\ Emitted = <<>>

\* C18 happens: the module has a function and an import of a foreign function
\* under one name, and a call by that name has been compiled
C18_Witness ==
    /\ last.kind = "Call"
    /\ last.e.n \in DOMAIN mod_context_stack[1].functions
    /\ last.e.n \in DOMAIN mod_context_stack[1].imports
    /\ Split(mod_context_stack[1].imports[last.e.n]) \in DOMAIN fn_uid_map
    /\ err = NoErr

\* the body of the function that has just been compiled ends in the RET of
\* an explicit return: a block of an if chain ends in a JMP and so does a loop
EndsInReturn == last.from > 0 /\ builder.code[last.from].op = "RET"

\* C19: the code of a compiled function ends with HALT 1, and compile_fn_decl
\* appends a return sequence (cleanup and RET) after the body only when the
\* return type is Void and the body does not end in an explicit return
C19_SyntheticReturnOnlyWhenNeeded ==
    (last.kind = "FnEnd" /\ err = NoErr) =>
        /\ builder.code[Len(builder.code)] = Instr("HALT", <<1>>)
        /\ (\E i \in 1..Len(Emitted) : Emitted[i].op = "RET")
              <=> (decls[decl_i].ret = "Void" /\ ~EndsInReturn)

\* a declaration list declares two functions of one name in one module: in
\* the list itself or in the list of a module in it
RECURSIVE HasDuplicateFunction(_)
HasDuplicateFunction(decl_list) ==
    \/ \E i, j \in 1..Len(decl_list) :
          /\ i < j
          /\ decl_list[i].kind = "Function"
          /\ decl_list[j].kind = "Function"
          /\ decl_list[i].name = decl_list[j].name
    \/ \E i \in 1..Len(decl_list) :
          /\ decl_list[i].kind = "Module"
          /\ HasDuplicateFunction(decl_list[i].inner)

\* C20: when the declaration tree declares two functions of one name in one
\* module, compile_root returns DuplicateFunction from the declare pass: the
\* compile pass has not run, the code buffer and the label table are empty
C20_DuplicateFunctionFromDeclarePass ==
    HasDuplicateFunction(decls) =>
        /\ phase = "error"
        /\ err.kind = "DuplicateFunction"
        /\ decl_i = 0
        /\ builder.code = <<>>
        /\ builder.labels = EmptyMap

\* C20 happens: the duplicate is in a module declared after a function of the
\* root list
C20_Witness ==
    /\ Len(decls) = 2
    /\ decls[1].kind = "Function"
    /\ decls[2] = ModDup
    /\ err = Error("DuplicateFunction", "run", "")

\* the byte offsets recorded under a tag
Sites(b, t) == IF t \in DOMAIN b.tags THEN Range(b.tags[t]) ELSE {}

\* the target operand of the jump at a byte offset
TargetAt(b, offset) ==
    b.code[get_instr(b, offset)].args[JumpArg(b.code[get_instr(b, offset)])]

\* the step goes on in the if chain on top: an else-if or the else begins
ChainNextStep ==
    /\ ctrl # <<>> /\ Len(ctrl') = Len(ctrl)
    /\ ctrl[1].kind \in {"if", "elif"}
    /\ ctrl'[1].kind \in {"elif", "else"}
    /\ last'.kind \in {"ElseIfBegin", "ElseBegin"}
    /\ last' # last

\* the step ends the if chain on top
ChainEndStep ==
    /\ ctrl # <<>> /\ ctrl' = Tail(ctrl)
    /\ ctrl[1].kind \in {"if", "elif", "else"}

\* the offset after the JMP to the end of the chain that the step pushed
\* under tag_end: where the next branch begins
AfterBranchJmp(tag_end) ==
    {builder'.offsets[j] + InstrSize(builder'.code[j]) :
        j \in {i \in (Len(builder.code) + 1)..Len(builder'.code) :
                  /\ builder'.code[i].op = "JMP"
                  /\ builder'.offsets[i] \in Sites(builder', tag_end)}}

\* C21: when an else-if or the else of an if chain begins, the JMPF of the
\* branch before gets the offset at which the new branch begins; when the
\* chain ends, the last JMPF gets the end offset if there is no else, and
\* every JMP at the end of a branch gets the end offset; no step of a chain
\* changes a jump recorded under another tag
C21_IfChainPatching ==
    [][/\ (ChainNextStep /\ err' = NoErr) =>
             /\ AfterBranchJmp(ctrl[1].tag_end) # {}
             /\ TargetAt(builder', builder.tags[ctrl[1].tag_next][1])
                    \in AfterBranchJmp(ctrl[1].tag_end)
       /\ (ChainEndStep /\ err' = NoErr) =>
             /\ \A o \in Sites(builder', ctrl[1].tag_end) :
                   /\ builder'.code[get_instr(builder', o)].op = "JMP"
                   /\ TargetAt(builder', o) = get_current_offset(builder')
             /\ ctrl[1].kind # "else" =>
                   TargetAt(builder', builder.tags[ctrl[1].tag_next][1])
                       = get_current_offset(builder')
             /\ ctrl[1].kind = "else" =>
                   TargetAt(builder', builder.tags[ctrl[1].tag_next][1])
                       = TargetAt(builder, builder.tags[ctrl[1].tag_next][1])
       /\ (ChainNextStep \/ ChainEndStep) =>
             \A i \in 1..Len(builder.code) :
                 (/\ IsJump(builder.code[i])
                  /\ builder.offsets[i] \notin
                        Sites(builder, ctrl[1].tag_end)
                        \cup Sites(builder, ctrl[1].tag_next))
                 => builder'.code[i] = builder.code[i]
      ]_vars

\* C21 happens: a chain with an else-if has ended inside a loop that has a
\* break: two JMP of the chain hold the end offset, and the loop's tag has
\* two jumps
C21_Witness ==
    /\ last.kind = "If" /\ err = NoErr
    /\ ctrl # <<>> /\ ctrl[1].kind = "while"
    /\ Cardinality(Sites(builder, ctrl[1].tag_end)) >= 2
    /\ Cardinality({i \in 1..Len(Emitted) : Emitted[i].op = "JMPF"}) >= 1
    /\ Cardinality({i \in (last.from + 1)..Len(builder.code) :
                       builder.code[i].op = "JMP"
                       /\ builder.code[i].args[1] = get_current_offset(builder)}) >= 2

\* the open while statements, innermost first, as positions in ctrl
OpenLoops == {k \in 1..Len(ctrl) : ctrl[k].kind = "while"}

\* the innermost open while statement
InnerLoop == ctrl[CHOOSE k \in OpenLoops : \A j \in OpenLoops : k <= j]

\* the offset of the condition of an open while statement: its first
\* instruction
ConditionOffset(frame) == builder.offsets[frame.from + 1]

\* the step compiled a break or a continue
JumpStmtStep(kind) == last'.kind = kind /\ last' # last

\* the step ends the loop on top
LoopEndStep ==
    /\ ctrl # <<>> /\ ctrl' = Tail(ctrl)
    /\ ctrl[1].kind = "while"

\* C22: a break's JMP is recorded under the tag of the innermost enclosing
\* loop, a continue's JMP and the back-jump at the end of a loop hold the
\* offset of that loop's condition, the end of a loop gives every jump under
\* the loop's tag (its JMPF and its breaks) the offset after the back-jump
\* and changes no other jump, and a break or a continue outside any loop
\* is an error
C22_LoopJumpTargets ==
    [][/\ (JumpStmtStep("Break") /\ OpenLoops # {}) =>
             /\ err' = NoErr
             /\ builder'.code[Len(builder'.code)] =
                    Instr("JMP", <<InnerLoop.tag_end>>)
             /\ builder'.offsets[Len(builder'.code)]
                    \in Sites(builder', InnerLoop.tag_end)
       /\ (JumpStmtStep("Continue") /\ OpenLoops # {}) =>
             /\ err' = NoErr
             /\ builder'.code[Len(builder'.code)] =
                    Instr("JMP", <<ConditionOffset(InnerLoop)>>)
       /\ ((JumpStmtStep("Break") \/ JumpStmtStep("Continue")) /\ OpenLoops = {}) =>
             /\ err' # NoErr
             /\ phase' = "error"
       /\ (LoopEndStep /\ err' = NoErr) =>
             /\ builder'.code[Len(builder'.code)] =
                    Instr("JMP", <<ConditionOffset(ctrl[1])>>)
             /\ builder.offsets[ctrl[1].from + 1]
                    < Head(builder.tags[ctrl[1].tag_end])
             /\ builder.code[get_instr(builder, Head(builder.tags[ctrl[1].tag_end]))].op
                    = "JMPF"
             /\ \A o \in Sites(builder', ctrl[1].tag_end) :
                   TargetAt(builder', o) = get_current_offset(builder')
             /\ \A i \in 1..Len(builder.code) :
                   (/\ IsJump(builder.code[i])
                    /\ builder.offsets[i] \notin Sites(builder, ctrl[1].tag_end))
                   => builder'.code[i] = builder.code[i]
      ]_vars

\* C22 happens: a loop has ended whose body is an inner loop followed by a
\* break: the JMPF of the outer loop and the break hold the end offset, the
\* JMPF of the inner loop holds the offset after the inner back-jump
C22_Witness ==
    /\ last.kind = "While" /\ err = NoErr
    /\ \E i, j, m, k \in 1..Len(Emitted) :
          /\ i < j /\ j < m /\ m < k
          /\ Emitted[i].op = "JMPF"
          /\ Emitted[i].args[2] = get_current_offset(builder)
          /\ Emitted[j].op = "JMPF"
          /\ Emitted[m].op = "JMP"
          /\ Emitted[m].args[1] < builder.offsets[last.from + m]
          /\ Emitted[m].args[1] > builder.offsets[last.from + i]
          /\ Emitted[j].args[2] =
                 builder.offsets[last.from + m] + InstrSize(Emitted[m])
          /\ Emitted[k].op = "JMP"
          /\ Emitted[k].args[1] = get_current_offset(builder)

\* the module a path of module names leads to from a module, if every name
\* is a module of the one before
RECURSIVE ModuleAt(_, _)
ModuleAt(mod_ctx, path) ==
    IF path = <<>> THEN <<mod_ctx>>
    ELSE IF Head(path) \in DOMAIN mod_ctx.modules
    THEN ModuleAt(mod_ctx.modules[Head(path)], Tail(path))
    ELSE <<>>

\* the module the qualified name last.n names: its fragments but the last,
\* from the root module after a leading root
NamedModule ==
    IF Head(Split(last.n)) = "root"
    THEN ModuleAt(mod_context_stack[Len(mod_context_stack)],
                  SubSeq(Split(last.n), 2, Len(Split(last.n)) - 1))
    ELSE ModuleAt(mod_context_stack[1],
                  SubSeq(Split(last.n), 1, Len(Split(last.n)) - 1))

LastFragment == Split(last.n)[Len(Split(last.n))]

\* C23: resolve_function on a qualified name returns the function the last
\* fragment names in the module the fragments before it lead to; when a
\* fragment names no module it returns UnknownModule or UnknownFunction, and
\* the thread does not panic
C23_QualifiedResolution ==
    (last.kind = "ResolveFunction" /\ Len(Split(last.n)) > 1
     /\ Head(Split(last.n)) # "super") =>
        IF NamedModule = <<>>
        THEN err.kind \in {"UnknownModule", "UnknownFunction"} /\ phase # "panic"
        ELSE IF LastFragment \in DOMAIN NamedModule[1].functions
        THEN err = NoErr /\ last.post = NamedModule[1].functions[LastFragment].uid
        ELSE err = Error("UnknownFunction", last.n, "")

\* C29: every call of resolve_function returns
C29_ResolveTerminates == (resolving # <<>>) ~> (resolving = <<>>)

\* the type a variable declaration drawn declares for a name
DeclaredType(name) == (CHOOSE d \in VarDecls : d.name = name).type

\* C24: a variable declaration whose declared type D is not Auto and whose
\* initializer has another type T fails with TypeMismatch(D, T), records no
\* variable and leaves stack_size as it was
C24_MismatchedVarDeclRejected ==
    (/\ last.kind = "VarDecl"
     /\ DeclaredType(last.n) # "Auto"
     /\ check_expr_type(fn_context_stack, last.e).err = NoErr
     /\ check_expr_type(fn_context_stack, last.e).t # DeclaredType(last.n)) =>
        /\ err = Error("TypeMismatch", DeclaredType(last.n),
                       check_expr_type(fn_context_stack, last.e).t)
        /\ ~Visible(last.n)
        /\ StackSize = last.pre

\* C25: the condition of an if, of an else-if and of a while whose type T is
\* not Bool fails with TypeMismatch(Bool, T), the expected type first, in
\* all three places
C25_ConditionMismatchExpectedFirst ==
    (/\ last.kind \in {"IfBegin", "ElseIfBegin", "WhileBegin"}
     /\ check_expr_type(fn_context_stack, last.e).err = NoErr
     /\ check_expr_type(fn_context_stack, last.e).t # "Bool") =>
        err = Error("TypeMismatch", "Bool",
                    check_expr_type(fn_context_stack, last.e).t)

\* C26: the standalone checker and the compiler's check_expr_type return the
\* same type for every expression both accept: Bool for a comparison of two
\* operands of one type, Bool for a Not
C26_CheckersAgree ==
    (/\ last.kind = "CheckerCheckExprType"
     /\ err = NoErr
     /\ check_expr_type(fn_context_stack, last.e).err = NoErr) =>
        /\ last.n = check_expr_type(fn_context_stack, last.e).t
        /\ last.e.k \in CompareKinds \cup {"Not"} => last.n = "Bool"

\* the function the call last.e names, its parameter types, and the checked
\* types of the call's arguments
CalledFn == resolve_function(mod_context_stack, last.e.n)

ParamType(i) == CalledFn.def.arguments[i].type

ArgType(i) == check_expr_type(fn_context_stack, last.e.args[i])

\* the first argument whose type is not its parameter's, 0 if there is none
FirstMismatch ==
    IF \A i \in 1..Len(last.e.args) : ArgType(i).t = ParamType(i) THEN 0
    ELSE CHOOSE i \in 1..Len(last.e.args) :
            /\ ArgType(i).t # ParamType(i)
            /\ \A j \in 1..(i - 1) : ArgType(j).t = ParamType(j)

\* the code of the argument loop: what the call emitted before CALL
ArgCode ==
    IF err = NoErr
    THEN SubSeq(Emitted, 1,
                (CHOOSE i \in 1..Len(Emitted) : Emitted[i].op = "CALL") - 1)
    ELSE Emitted

\* stack_size after the argument loop: compile_call_expr adds the size of
\* the return value after it and subtracts the operand of its last SUBU_I
StackSizeAfterArgs ==
    IF err = NoErr
    THEN last.post - get_size_of_type(CalledFn.def.ret_type)
         + Emitted[Len(Emitted)].args[2]
    ELSE StackSize

\* the sizes of the first k arguments, and the offsets of the slots of those
\* of them that are passed through a register
PushedSizes(k) == ArgSizes(SubSeq(CalledFn.def.arguments, 1, k))

RECURSIVE RegisterSlots(_)
RegisterSlots(sizes) ==
    IF sizes = <<>> THEN <<>>
    ELSE (IF Head(sizes) <= 8 THEN <<-Head(sizes)>> ELSE <<>>)
         \o RegisterSlots(Tail(sizes))

IsSlotStore(ins) == ins.op = "MOVI_RA"

\* the argument loop pushed the first k arguments, in their order
ArgsPushed(k) ==
    /\ StackSizeAfterArgs = last.pre + SumSeq(PushedSizes(k))
    /\ SumSeq([i \in 1..Len(ArgCode) |-> SPEffect(ArgCode[i])])
         = SumSeq(PushedSizes(k))
    /\ [i \in 1..Len(SelectSeq(ArgCode, IsSlotStore)) |->
           SelectSeq(ArgCode, IsSlotStore)[i].args[3]]
         = RegisterSlots(PushedSizes(k))

\* the last step compiled a call of a function that resolves, with arguments
\* that have types
CallOfTypedArgs ==
    /\ last.kind = "Call"
    /\ CalledFn.err = NoErr
    /\ \A i \in 1..Len(last.e.args) : ArgType(i).err = NoErr

Slice == SubSeq(lexer.source, lexer.start + 1, lexer.end)

IsWord(slice) ==
    /\ slice # <<>>
    /\ slice[1] \in Letters
    /\ \A i \in 1..Len(slice) : slice[i] \in Letters \cup Digits

IsString(slice) ==
    /\ Len(slice) >= 2
    /\ slice[1] = Quote /\ slice[Len(slice)] = Quote
    /\ \A i \in 2..(Len(slice) - 1) : slice[i] # Quote

\* the token is the one its slice spells, and a word is not cut short
TokenSpellsSlice ==
    /\ lexer.token = "Fn" <=> Slice = <<"f", "n">>
    /\ lexer.token = "Text" <=> (IsWord(Slice) /\ Slice # <<"f", "n">>)
    /\ IsWord(Slice) =>
          (lexer.end < Len(lexer.source) =>
              lexer.source[lexer.end + 1] \notin Letters \cup Digits)
    /\ lexer.token = "OpenParan" <=> Slice = <<"(">>
    /\ lexer.token = "CloseParan" <=> Slice = <<")">>
    /\ lexer.token = "OpenBlock" <=> Slice = <<"{">>
    /\ lexer.token = "CloseBlock" <=> Slice = <<"}">>
    /\ lexer.token = "StringLiteral" <=> IsString(Slice)
    /\ Slice = <<>> <=> lexer.token = "End"

\* an advance goes on in the same source after the last slice, over
\* whitespace only
AdvancesInOrder ==
    /\ lexer'.source = lexer.source
    /\ lexer'.start >= lexer.end
    /\ \A i \in (lexer.end + 1)..lexer'.start : lexer.source[i] \in Whitespace

\* C28: the lexer yields the tokens in source order with exact slices: fn is
\* Fn and not Text, any other word is Text, ( ) { } are OpenParan,
\* CloseParan, OpenBlock, CloseBlock, and a string from a quote to the next
\* quote is one StringLiteral whose slice has both quotes
C28_TokensInOrderWithSlices ==
    []TokenSpellsSlice /\ [][AdvancesInOrder]_vars

\* the lexer advanced twice over fn( to a word, or once over a string
C28_Witness ==
    \/ /\ lexer.token = "Text" /\ lexer.start = 3
       /\ SubSeq(lexer.source, 1, 3) = <<"f", "n", "(">>
    \/ /\ lexer.token = "CloseBlock" /\ lexer.start = 3
       /\ SubSeq(lexer.source, 1, 3) = <<Quote, "f", Quote>>

\* C30: a condition that check_expr_type accepts as Bool is accepted by
\* compile_expr as well: the if, else-if or while goes on without an error
C30_CheckedExpressionsCompile ==
    (/\ last.kind \in {"IfBegin", "ElseIfBegin", "WhileBegin"}
     /\ check_expr_type(fn_context_stack, last.e) = TypeOk("Bool")) =>
        err = NoErr

====
